---------------------------- MODULE Spec2Model ----------------------------
(***************************************************************************)
(* Session Registry of AeroWork (src-tauri/src/core/session_registry.rs):  *)
(* the Active Session Table, the transcript parser, the path key codec and *)
(* the merge and pagination engine, with the session commands of           *)
(* src-tauri/src/commands/session.rs.                                      *)
(*                                                                         *)
(* Strings are sequences of one-character strings, so that prefix tests,   *)
(* character replacement, truncation and byte-wise comparison are computed *)
(* as the code computes them.  Option<T> is a sequence of length 0 or 1.   *)
(***************************************************************************)
EXTENDS Integers, Sequences, FiniteSets, TLC

VARIABLES
    active_sessions,  \* SessionRegistry.active_sessions: the HashMap, as a set of <<key, ActiveSession>>
    clock,            \* the instant Utc::now() returns
    disk,             \* the transcript tree under SessionRegistry.projects_dir
    response,         \* what the last completed registry call returned, with its arguments
    parser,           \* parse_session_file's locals during its pass over one file
    threads,          \* per thread: the registry call in progress, its position and locals
    lock              \* the RwLock around active_sessions: its writer and its readers

vars == <<active_sessions, clock, disk, response, parser, threads, lock>>

-----------------------------------------------------------------------------
(* Bounds of the model.                                                    *)

\* The clock stops advancing at this instant.
MaxClock == 1
\* Longest transcript the parser specification draws.
MaxLines == 3
\* Largest page size and offset drawn besides the extreme word values.
MaxPage == 2
\* Width in bits of the modelled machine word (usize).
WordBits == 3
\* Messages in the longest transcript load_session_chat_items is run on.
MaxHistory == 250
\* Longest path handed to the path key codec.
MaxPath == 3
\* Longest text handed to truncate_string.
MaxText == 60

-----------------------------------------------------------------------------
(* Option<T> and strings.                                                  *)

None == << >>
Some(x) == <<x>>
IsSome(o) == o # << >>
Unwrap(o) == o[1]

\* The printable ASCII characters in byte order: Ascii[i] is byte 31 + i
\* (byte 96, the grave accent, is written GRAVE).
Ascii == <<" ","!","\"","#","$","%","&","'","(",")","*","+",",","-",".","/","0","1","2","3","4","5","6","7","8","9",":",";","<","=",">","?","@","A","B","C","D","E","F","G","H","I","J","K","L","M","N","O","P","Q","R","S","T","U","V","W","X","Y","Z","[","\\","]","^","_","GRAVE","a","b","c","d","e","f","g","h","i","j","k","l","m","n","o","p","q","r","s","t","u","v","w","x","y","z","{","|","}","~">>

ByteTable == [c \in {Ascii[i] : i \in 1..Len(Ascii)} |->
                31 + (CHOOSE i \in 1..Len(Ascii) : Ascii[i] = c)]
ByteOf(c) == ByteTable[c]

\* str::cmp: byte-wise lexicographic order; a proper prefix is the smaller.
RECURSIVE StrLess(_, _)
StrLess(a, b) ==
    IF b = << >> THEN FALSE
    ELSE IF a = << >> THEN TRUE
    ELSE IF Head(a) = Head(b) THEN StrLess(Tail(a), Tail(b))
    ELSE ByteOf(Head(a)) < ByteOf(Head(b))

StrLeq(a, b) == a = b \/ StrLess(a, b)

\* str::starts_with
starts_with(s, prefix) ==
    /\ Len(prefix) <= Len(s)
    /\ SubSeq(s, 1, Len(prefix)) = prefix

\* str::replace(from, to) for a single character
replace(s, from, to) == [i \in 1..Len(s) |-> IF s[i] = from THEN to ELSE s[i]]

-----------------------------------------------------------------------------
(* Time: an instant is a number of seconds after 2024-01-01T00:00:00Z.     *)

Digits == <<"0","1","2","3","4","5","6","7","8","9">>
Digit(n) == Digits[n + 1]

\* DateTime<Utc>::to_rfc3339 of an instant with no sub-second part (t < 60).
to_rfc3339(t) ==
    <<"2","0","2","4","-","0","1","-","0","1","T","0","0",":","0","0",":">>
        \o <<Digit(t \div 10), Digit(t % 10)>>
        \o <<"+","0","0",":","0","0">>

-----------------------------------------------------------------------------
(* Path key codec.                                                         *)

\* std::fs::canonicalize on the modelled file system: the symbolic link
\* /l resolves to /a, a path that exists resolves to itself, and any other
\* path fails to resolve.
canonicalize(cwd) ==
    IF cwd = <<"/","l">> THEN Some(<<"/","a">>)
    ELSE IF cwd = <<"/","a">> THEN Some(cwd)
    ELSE None

\* An encoding that leaves underscores in place.
cwd_to_path_key_NoUnderscore(cwd) ==
    replace(IF IsSome(canonicalize(cwd)) THEN Unwrap(canonicalize(cwd)) ELSE cwd, "/", "-")

cwd_to_path_key(cwd) ==
    LET resolved == IF IsSome(canonicalize(cwd)) THEN Unwrap(canonicalize(cwd)) ELSE cwd
    IN  replace(replace(resolved, "/", "-"), "_", "-")

\* A decoding that returns the key.
path_key_to_cwd_Identity(path_key) == path_key

path_key_to_cwd(path_key) == replace(path_key, "-", "/")

\* The UTF-8 width of a character of the model: EACUTE stands for a
\* two-byte code point, every other character is ASCII.
Utf8Len(c) == IF c = "EACUTE" THEN 2 ELSE 1
RECURSIVE ByteLen(_)
ByteLen(s) == IF s = << >> THEN 0 ELSE Utf8Len(Head(s)) + ByteLen(Tail(s))

\* A truncation that counts and cuts bytes: the longest run of whole
\* characters within max_chars bytes.
truncate_string_Bytes(s, max_chars) ==
    IF ByteLen(s) <= max_chars THEN s
    ELSE LET fit == {k \in 0..Len(s) : ByteLen(SubSeq(s, 1, k)) <= max_chars}
             cut == CHOOSE k \in fit : \A j \in fit : j <= k
         IN  SubSeq(s, 1, cut) \o <<".",".",".">>

\* truncate_string: s.chars().count() and s.chars().take(max_chars), on a
\* string held as the sequence of its characters.
truncate_string(s, max_chars) ==
    IF Len(s) <= max_chars THEN s
    ELSE SubSeq(s, 1, max_chars) \o <<".",".",".">>

-----------------------------------------------------------------------------
(* System message filter.                                                  *)

SYSTEM_MESSAGE_PATTERNS == {
    <<"<","c","o","m","m","a","n","d","-","n","a","m","e",">">>,
    <<"<","c","o","m","m","a","n","d","-","m","e","s","s","a","g","e",">">>,
    <<"<","c","o","m","m","a","n","d","-","a","r","g","s",">">>,
    <<"<","l","o","c","a","l","-","c","o","m","m","a","n","d","-","s","t","d","o","u","t",">">>,
    <<"<","s","y","s","t","e","m","-","r","e","m","i","n","d","e","r",">">>,
    <<"C","a","v","e","a","t",":">>,
    <<"T","h","i","s"," ","s","e","s","s","i","o","n"," ","i","s"," ","b","e","i","n","g"," ","c","o","n","t","i","n","u","e","d"," ","f","r","o","m"," ","a"," ","p","r","e","v","i","o","u","s">>,
    <<"I","n","v","a","l","i","d"," ","A","P","I"," ","k","e","y">>,
    <<"{","\"","s","u","b","t","a","s","k","s","\"",":">>,
    <<"C","R","I","T","I","C","A","L",":"," ","Y","o","u"," ","M","U","S","T"," ","r","e","s","p","o","n","d"," ","w","i","t","h"," ","O","N","L","Y"," ","a"," ","J","S","O","N">>,
    <<"W","a","r","m","u","p">> }

is_system_message(content) ==
    IF content = << >> THEN FALSE
    ELSE \E pattern \in SYSTEM_MESSAGE_PATTERNS : starts_with(content, pattern)

-----------------------------------------------------------------------------
(* Transcript lines.  A line is blank, malformed JSON, or a JSON object;   *)
(* a field holds None when the key is missing or has another JSON type     *)
(* than the one the code asks for.                                         *)

\* message.content: a string, an array of items, missing, or another value.
\* An array item is a string, an object with a "text" string, or another value.
ContentString(text) == [shape |-> "string", text |-> text, items |-> << >>]
ContentArray(items) == [shape |-> "array", text |-> << >>, items |-> items]
ContentMissing == [shape |-> "missing", text |-> << >>, items |-> << >>]
ContentOther == [shape |-> "other", text |-> << >>, items |-> << >>]
ItemText(text) == [kind |-> "object_text", text |-> text]
ItemString(text) == [kind |-> "string", text |-> text]
ItemOther == [kind |-> "other", text |-> << >>]

\* An extraction that reads a plain string only.
extract_text_content_StringOnly(content) ==
    IF content.shape = "string" THEN Some(content.text) ELSE None

extract_text_content(content) ==
    IF content.shape = "missing" THEN None
    ELSE IF content.shape = "string" THEN Some(content.text)
    ELSE IF content.shape = "array" /\ content.items # << >>
        THEN LET first == Head(content.items)
             IN  IF first.kind = "object_text" THEN Some(first.text)
                 ELSE IF first.kind = "string" THEN Some(first.text)
                 ELSE None
    ELSE None

BlankLine == [kind |-> "blank"]
MalformedLine == [kind |-> "malformed"]
\* A JSON object with none of the keys the parser reads.
EmptyEntry ==
    [kind |-> "json", type |-> None, summary |-> None, leafUuid |-> None,
     sessionId |-> None, cwd |-> None, parentUuid |-> None, message |-> None,
     isApiErrorMessage |-> None, timestamp |-> None, uuid |-> None]

NewSession == <<"N","e","w"," ","S","e","s","s","i","o","n">>

-----------------------------------------------------------------------------
(* parse_session_file: one forward pass over the lines of a transcript.    *)

\* The locals of parse_session_file before the first line.
ParseInit ==
    [summary |-> NewSession, message_count |-> 0, last_activity |-> << >>,
     cwd |-> << >>, last_user_message |-> None, last_assistant_message |-> None,
     pending_summaries |-> << >>]

IsSummaryEntry(entry) == entry.type = Some("summary")

\* A message tracking that shows API error messages in the preview.
TrackMessage_ErrorsShown(st, entry) ==
    IF ~IsSome(entry.message) THEN st
    ELSE LET msg == Unwrap(entry.message)
             content == extract_text_content(msg.content)
             accepted == IsSome(content) /\ ~is_system_message(Unwrap(content))
         IN  [st EXCEPT
                !.last_user_message =
                    IF accepted /\ msg.role = Some("user") THEN content ELSE @,
                !.last_assistant_message =
                    IF accepted /\ msg.role = Some("assistant") THEN content ELSE @,
                !.message_count = @ + 1]

\* "Track messages": the previews are updated for a line whose text is present
\* and not a system message; message_count is incremented for every line that
\* has a "message" key.
TrackMessage(st, entry) ==
    IF ~IsSome(entry.message) THEN st
    ELSE LET msg == Unwrap(entry.message)
             content == extract_text_content(msg.content)
             accepted == IsSome(content) /\ ~is_system_message(Unwrap(content))
         IN  [st EXCEPT
                !.last_user_message =
                    IF accepted /\ msg.role = Some("user") THEN content ELSE @,
                !.last_assistant_message =
                    IF accepted /\ msg.role = Some("assistant")
                       /\ entry.isApiErrorMessage # Some(TRUE)
                    THEN content ELSE @,
                !.message_count = @ + 1]

\* A loop body in which every parent-pointer match replaces the summary.
ParseLine_LastMatchWins(st, line) ==
    IF line.kind # "json" THEN st
    ELSE
    LET pending ==
            IF IsSummaryEntry(line) /\ IsSome(line.summary) /\ IsSome(line.leafUuid)
            THEN (Unwrap(line.leafUuid) :> Unwrap(line.summary)) @@ st.pending_summaries
            ELSE st.pending_summaries
        st1 == [st EXCEPT !.pending_summaries = pending]
    IN  IF ~IsSome(line.sessionId) THEN st1
        ELSE
        LET st2 == [st1 EXCEPT !.cwd =
                        IF @ = << >> /\ IsSome(line.cwd) THEN Unwrap(line.cwd) ELSE @]
            st3 == [st2 EXCEPT !.summary =
                        IF IsSome(line.parentUuid)
                           /\ Unwrap(line.parentUuid) \in DOMAIN pending
                        THEN pending[Unwrap(line.parentUuid)] ELSE @]
            st4 == [st3 EXCEPT !.summary =
                        IF IsSummaryEntry(line) /\ IsSome(line.summary)
                        THEN Unwrap(line.summary) ELSE @]
            st5 == TrackMessage(st4, line)
        IN  [st5 EXCEPT !.last_activity =
                IF IsSome(line.timestamp) THEN Unwrap(line.timestamp) ELSE @]

\* A loop body that keeps the greatest timestamp seen.
ParseLine_GreatestTimestamp(st, line) ==
    IF line.kind # "json" THEN st
    ELSE
    LET pending ==
            IF IsSummaryEntry(line) /\ IsSome(line.summary) /\ IsSome(line.leafUuid)
            THEN (Unwrap(line.leafUuid) :> Unwrap(line.summary)) @@ st.pending_summaries
            ELSE st.pending_summaries
        st1 == [st EXCEPT !.pending_summaries = pending]
    IN  IF ~IsSome(line.sessionId) THEN st1
        ELSE
        LET st2 == [st1 EXCEPT !.cwd =
                        IF @ = << >> /\ IsSome(line.cwd) THEN Unwrap(line.cwd) ELSE @]
            st3 == [st2 EXCEPT !.summary =
                        IF @ = NewSession /\ IsSome(line.parentUuid)
                           /\ Unwrap(line.parentUuid) \in DOMAIN pending
                        THEN pending[Unwrap(line.parentUuid)] ELSE @]
            st4 == [st3 EXCEPT !.summary =
                        IF IsSummaryEntry(line) /\ IsSome(line.summary)
                        THEN Unwrap(line.summary) ELSE @]
            st5 == TrackMessage(st4, line)
        IN  [st5 EXCEPT !.last_activity =
                IF IsSome(line.timestamp) /\ StrLess(@, Unwrap(line.timestamp))
                THEN Unwrap(line.timestamp) ELSE @]

\* A loop body that starts over at a line that is not JSON.
ParseLine_ResetOnMalformed(st, line) ==
    IF line.kind = "malformed" THEN
        [summary |-> NewSession, message_count |-> 0, last_activity |-> << >>,
         cwd |-> << >>, last_user_message |-> None, last_assistant_message |-> None,
         pending_summaries |-> << >>]
    ELSE IF line.kind # "json" THEN st
    ELSE
    LET pending ==
            IF IsSummaryEntry(line) /\ IsSome(line.summary) /\ IsSome(line.leafUuid)
            THEN (Unwrap(line.leafUuid) :> Unwrap(line.summary)) @@ st.pending_summaries
            ELSE st.pending_summaries
        st1 == [st EXCEPT !.pending_summaries = pending]
    IN  IF ~IsSome(line.sessionId) THEN st1
        ELSE
        LET st2 == [st1 EXCEPT !.cwd =
                        IF @ = << >> /\ IsSome(line.cwd) THEN Unwrap(line.cwd) ELSE @]
            st3 == [st2 EXCEPT !.summary =
                        IF @ = NewSession /\ IsSome(line.parentUuid)
                           /\ Unwrap(line.parentUuid) \in DOMAIN pending
                        THEN pending[Unwrap(line.parentUuid)] ELSE @]
            st4 == [st3 EXCEPT !.summary =
                        IF IsSummaryEntry(line) /\ IsSome(line.summary)
                        THEN Unwrap(line.summary) ELSE @]
            st5 == TrackMessage(st4, line)
        IN  [st5 EXCEPT !.last_activity =
                IF IsSome(line.timestamp) THEN Unwrap(line.timestamp) ELSE @]

\* The body of the loop over content.lines().
ParseLine(st, line) ==
    IF line.kind # "json" THEN st
    ELSE
    LET pending ==
            IF IsSummaryEntry(line) /\ IsSome(line.summary) /\ IsSome(line.leafUuid)
            THEN (Unwrap(line.leafUuid) :> Unwrap(line.summary)) @@ st.pending_summaries
            ELSE st.pending_summaries
        st1 == [st EXCEPT !.pending_summaries = pending]
    IN  IF ~IsSome(line.sessionId) THEN st1
        ELSE
        LET st2 == [st1 EXCEPT !.cwd =
                        IF @ = << >> /\ IsSome(line.cwd) THEN Unwrap(line.cwd) ELSE @]
            st3 == [st2 EXCEPT !.summary =
                        IF @ = NewSession /\ IsSome(line.parentUuid)
                           /\ Unwrap(line.parentUuid) \in DOMAIN pending
                        THEN pending[Unwrap(line.parentUuid)] ELSE @]
            st4 == [st3 EXCEPT !.summary =
                        IF IsSummaryEntry(line) /\ IsSome(line.summary)
                        THEN Unwrap(line.summary) ELSE @]
            st5 == TrackMessage(st4, line)
        IN  [st5 EXCEPT !.last_activity =
                IF IsSome(line.timestamp) THEN Unwrap(line.timestamp) ELSE @]

RECURSIVE ParseLines(_, _)
ParseLines(st, lines) ==
    IF lines = << >> THEN st ELSE ParseLines(ParseLine(st, Head(lines)), Tail(lines))

\* A finish that stamps a transcript without timestamps with the current
\* instant.
ParseFinish_ClockFallback(st, file) ==
    IF st.message_count = 0 THEN None
    ELSE Some(
        [id |-> << >>,
         summary |->
            IF st.summary # NewSession THEN st.summary
            ELSE IF IsSome(st.last_user_message)
                THEN truncate_string(Unwrap(st.last_user_message), 50)
            ELSE IF IsSome(st.last_assistant_message)
                THEN truncate_string(Unwrap(st.last_assistant_message), 50)
            ELSE st.summary,
         message_count |-> st.message_count,
         last_activity |->
            IF st.last_activity = << >> THEN to_rfc3339(clock) ELSE st.last_activity,
         cwd |-> st.cwd,
         active |-> FALSE,
         project |-> None,
         last_user_message |-> st.last_user_message,
         last_assistant_message |-> st.last_assistant_message])

\* A finish whose fallback summary prefers the assistant's message.
ParseFinish_AssistantFirst(st, file) ==
    IF st.message_count = 0 THEN None
    ELSE Some(
        [id |-> << >>,
         summary |->
            IF st.summary # NewSession THEN st.summary
            ELSE IF IsSome(st.last_assistant_message)
                THEN truncate_string(Unwrap(st.last_assistant_message), 50)
            ELSE IF IsSome(st.last_user_message)
                THEN truncate_string(Unwrap(st.last_user_message), 50)
            ELSE st.summary,
         message_count |-> st.message_count,
         last_activity |->
            IF st.last_activity = << >> /\ IsSome(file.mtime)
            THEN to_rfc3339(Unwrap(file.mtime)) ELSE st.last_activity,
         cwd |-> st.cwd,
         active |-> FALSE,
         project |-> None,
         last_user_message |-> st.last_user_message,
         last_assistant_message |-> st.last_assistant_message])

\* What follows the loop: the empty-session test, the fallback summary and the
\* fallback to the file's modification time.  file.mtime is None when
\* std::fs::metadata or modified() fails.
ParseFinish(st, file) ==
    IF st.message_count = 0 THEN None
    ELSE Some(
        [id |-> << >>,
         summary |->
            IF st.summary # NewSession THEN st.summary
            ELSE IF IsSome(st.last_user_message)
                THEN truncate_string(Unwrap(st.last_user_message), 50)
            ELSE IF IsSome(st.last_assistant_message)
                THEN truncate_string(Unwrap(st.last_assistant_message), 50)
            ELSE st.summary,
         message_count |-> st.message_count,
         last_activity |->
            IF st.last_activity = << >> /\ IsSome(file.mtime)
            THEN to_rfc3339(Unwrap(file.mtime)) ELSE st.last_activity,
         cwd |-> st.cwd,
         active |-> FALSE,
         project |-> None,
         last_user_message |-> st.last_user_message,
         last_assistant_message |-> st.last_assistant_message])

\* A file is [readable, lines, mtime]; read_to_string fails on an unreadable one.
parse_session_file(file) ==
    IF ~file.readable THEN None
    ELSE ParseFinish(ParseLines(ParseInit, file.lines), file)

-----------------------------------------------------------------------------
(* The transcripts the model draws.                                        *)

\* A transcript timestamp of second t, as the agent tooling writes it.
TsZ(t) ==
    <<"2","0","2","4","-","0","1","-","0","1","T","0","0",":","0","0",":">>
        \o <<Digit(t \div 10), Digit(t % 10)>> \o <<"Z">>

TextHi == <<"h","i">>
TextOk == <<"o","k">>
TextErr == <<"e","r","r">>
TextSummary == <<"S","u","m">>
TextReminder ==
    <<"<","s","y","s","t","e","m","-","r","e","m","i","n","d","e","r",">","x">>
TextWarmup == <<"W","a","r","m","u","p">>
CwdA == <<"/","a">>
CwdBC == <<"/","b","_","c">>
CwdL == <<"/","l">>

MessageEntry(role, content, ts) ==
    [EmptyEntry EXCEPT !.sessionId = Some("sid"),
                       !.message = Some([role |-> Some(role), content |-> content]),
                       !.timestamp = ts]

\* A summary event: no sessionId, staged under its leafUuid.
SummaryLine ==
    [EmptyEntry EXCEPT !.type = Some("summary"), !.summary = Some(TextSummary),
                       !.leafUuid = Some("u1")]
UserLine ==
    [MessageEntry("user", ContentString(TextHi), Some(TsZ(1)))
        EXCEPT !.cwd = Some(CwdA), !.parentUuid = Some("u1"), !.uuid = Some("m1")]
AssistantLine ==
    [MessageEntry("assistant", ContentArray(<<ItemText(TextOk)>>), Some(TsZ(0)))
        EXCEPT !.uuid = Some("m2")]
SystemLine == MessageEntry("user", ContentString(TextReminder), Some(TsZ(2)))
WarmupLine == MessageEntry("assistant", ContentArray(<<ItemString(TextWarmup)>>), None)
ApiErrorLine ==
    [MessageEntry("assistant", ContentString(TextErr), None)
        EXCEPT !.isApiErrorMessage = Some(TRUE)]
NoTextLine == MessageEntry("user", ContentOther, None)
\* A line with a sessionId and no "message" key (e.g. a file snapshot).
NoMessageLine == [EmptyEntry EXCEPT !.sessionId = Some("sid"), !.timestamp = Some(TsZ(2))]

LineAlphabet ==
    {BlankLine, MalformedLine, SummaryLine, UserLine, AssistantLine, SystemLine,
     WarmupLine, ApiErrorLine, NoTextLine, NoMessageLine}

SeqsUpTo(S, n) == UNION {[1..k -> S] : k \in 0..n}

File(lines) == [readable |-> TRUE, lines |-> lines, mtime |-> Some(1)]
UnreadableFile == [readable |-> FALSE, lines |-> << >>, mtime |-> None]

-----------------------------------------------------------------------------
(* The parser specification: parse_session_file on one file, a line a step. *)

ParserIdle ==
    [file |-> UnreadableFile, pos |-> 0, st |-> ParseInit, done |-> TRUE, result |-> None]

\* read_to_string fails: return None.
ParseOpenFails ==
    /\ ~parser.done /\ ~parser.file.readable
    /\ parser' = [parser EXCEPT !.done = TRUE, !.result = None]
    /\ UNCHANGED <<active_sessions, clock, disk, response, threads, lock>>

\* One iteration of the loop over content.lines().
ParseNextLine ==
    /\ ~parser.done /\ parser.file.readable
    /\ parser.pos < Len(parser.file.lines)
    /\ parser' = [parser EXCEPT !.pos = @ + 1,
                                !.st = ParseLine(@, parser.file.lines[parser.pos + 1])]
    /\ UNCHANGED <<active_sessions, clock, disk, response, threads, lock>>

\* The loop is over: the checks and fallbacks after it, and the return.
ParseEnd ==
    /\ ~parser.done /\ parser.file.readable
    /\ parser.pos = Len(parser.file.lines)
    /\ parser' = [parser EXCEPT !.done = TRUE, !.result = ParseFinish(parser.st, parser.file)]
    /\ UNCHANGED <<active_sessions, clock, disk, response, threads, lock>>

\* parse_session_file is called once more on the file it has just parsed;
\* first keeps what the first call returned.
ParseAgain ==
    /\ parser.done /\ parser.first = None
    /\ parser' = [parser EXCEPT !.pos = 0, !.st = ParseInit, !.done = FALSE,
                                !.result = None, !.first = Some(parser.result)]
    /\ UNCHANGED <<active_sessions, clock, disk, response, threads, lock>>

-----------------------------------------------------------------------------
(* HashMap<K, V> as the set of its entries [key, value].                   *)

contains_key(map, k) == \E e \in map : e.key = k

MapGet(map, k) ==
    IF contains_key(map, k) THEN Some((CHOOSE e \in map : e.key = k).value) ELSE None

\* An insert that leaves the entry of an existing key beside the new one.
MapInsert_KeepOld(map, k, v) == map \cup {[key |-> k, value |-> v]}

\* HashMap::insert: the value of an existing key is replaced.
MapInsert(map, k, v) == {e \in map : e.key # k} \cup {[key |-> k, value |-> v]}

\* HashMap::remove
MapRemove(map, k) == {e \in map : e.key # k}

\* HashMap::values / into_values, in no particular order.
MapValues(map) == {e.value : e \in map}

-----------------------------------------------------------------------------
(* The Active Session Table.                                               *)

\* A register that keeps the entry of an id that is already present.
register_session_KeepExisting(map, id, cwd, modes, models, now) ==
    IF contains_key(map, id) THEN map
    ELSE MapInsert(map, id,
            [id |-> id, cwd |-> cwd, created_at |-> now, last_activity |-> now,
             modes |-> modes, models |-> models])

\* register_session, under the write lock: the entry built from the arguments
\* and the instant read before the lock was taken.
register_session(map, id, cwd, modes, models, now) ==
    MapInsert(map, id,
        [id |-> id, cwd |-> cwd, created_at |-> now, last_activity |-> now,
         modes |-> modes, models |-> models])

\* An unregister that empties the table.
unregister_session_Clear(map, id) == {}

\* unregister_session, under the write lock: sessions.remove(id).
unregister_session(map, id) == MapRemove(map, id)

\* An update that registers an id it does not find.
update_activity_Upsert(map, id, now) ==
    MapInsert(map, id,
        IF contains_key(map, id)
        THEN [Unwrap(MapGet(map, id)) EXCEPT !.last_activity = now]
        ELSE [id |-> id, cwd |-> << >>, created_at |-> now, last_activity |-> now,
              modes |-> None, models |-> None])

\* update_activity: last_activity of a present id becomes the current instant.
update_activity(map, id, now) ==
    IF contains_key(map, id)
    THEN MapInsert(map, id, [Unwrap(MapGet(map, id)) EXCEPT !.last_activity = now])
    ELSE map

\* An update of the modes that also counts as activity.
update_modes_Touching(map, id, modes) ==
    IF contains_key(map, id)
    THEN MapInsert(map, id, [Unwrap(MapGet(map, id)) EXCEPT !.modes = Some(modes),
                                                           !.last_activity = clock])
    ELSE map

\* update_modes: the modes of a present id are replaced.
update_modes(map, id, modes) ==
    IF contains_key(map, id)
    THEN MapInsert(map, id, [Unwrap(MapGet(map, id)) EXCEPT !.modes = Some(modes)])
    ELSE map

get_active_session(map, id) == MapGet(map, id)
is_session_active(map, id) == contains_key(map, id)
get_active_sessions(map) == MapValues(map)

-----------------------------------------------------------------------------
(* list_sessions, step 1: the active sessions.                             *)

ActiveSummary == <<"A","c","t","i","v","e"," ","s","e","s","s","i","o","n">>

\* The SessionInfo built for an active session (list_sessions and
\* get_session_info build the same one).
ActiveInfo(id, session) ==
    [id |-> id, summary |-> ActiveSummary, message_count |-> 0,
     last_activity |-> to_rfc3339(session.last_activity), cwd |-> session.cwd,
     active |-> TRUE, project |-> Some(cwd_to_path_key(session.cwd)),
     last_user_message |-> None, last_assistant_message |-> None]

\* A seeding that ignores the filter.
SeedActive_Unfiltered(map, cwd) ==
    {[key |-> e.key, value |-> ActiveInfo(e.key, e.value)] : e \in map}

\* The loop over active.iter(): every entry, or those whose cwd equals the filter.
SeedActive(map, cwd) ==
    {[key |-> e.key, value |-> ActiveInfo(e.key, e.value)] :
        e \in {x \in map : ~IsSome(cwd) \/ x.value.cwd = Unwrap(cwd)}}

-----------------------------------------------------------------------------
(* The transcript tree.  disk.root says whether projects_dir exists and    *)
(* can be listed; disk.entries are its entries in read_dir order.  An entry *)
(* is [name, is_dir, readable, files]: readable says whether read_dir on it *)
(* succeeds, files are its entries in read_dir order.  A file is           *)
(* [stem, ext, readable, lines, mtime].                                    *)

DiskFile(stem, ext, file) ==
    [stem |-> stem, ext |-> ext, readable |-> file.readable, lines |-> file.lines,
     mtime |-> file.mtime]

AgentPrefix == <<"a","g","e","n","t","-">>

\* project_dirs, after the exists()/is_dir() test at the head of the loop.
ProjectDirs(cwd) ==
    IF disk.root = "missing" THEN << >>
    ELSE IF IsSome(cwd)
        THEN SelectSeq(disk.entries,
                LAMBDA d : d.name = cwd_to_path_key(Unwrap(cwd)) /\ d.is_dir)
    ELSE IF disk.root = "ok" THEN SelectSeq(disk.entries, LAMBDA d : d.is_dir)
    ELSE << >>

\* The body of the loop over the entries of one project directory.
ScanFile_SkipActive(all_sessions, project_name, file) ==
    IF file.ext # "jsonl" THEN all_sessions
    ELSE IF contains_key(all_sessions, file.stem) THEN all_sessions
    ELSE IF starts_with(file.stem, AgentPrefix) THEN all_sessions
    ELSE LET parsed == parse_session_file(file)
         IN  IF ~IsSome(parsed) THEN all_sessions
             ELSE MapInsert(all_sessions, file.stem,
                    [Unwrap(parsed) EXCEPT
                        !.id = file.stem, !.active = FALSE,
                        !.project = Some(project_name),
                        !.cwd = IF @ = << >> THEN path_key_to_cwd(project_name) ELSE @])

\* A loop body whose enrichment also takes the transcript's timestamp and cwd.
ScanFile_EnrichAll(all_sessions, project_name, file) ==
    IF file.ext # "jsonl" THEN all_sessions
    ELSE IF contains_key(all_sessions, file.stem)
        THEN LET parsed == parse_session_file(file)
                 existing == Unwrap(MapGet(all_sessions, file.stem))
             IN  IF ~IsSome(parsed) THEN all_sessions
                 ELSE MapInsert(all_sessions, file.stem,
                        [existing EXCEPT
                            !.summary = Unwrap(parsed).summary,
                            !.message_count = Unwrap(parsed).message_count,
                            !.last_activity = Unwrap(parsed).last_activity,
                            !.cwd = Unwrap(parsed).cwd,
                            !.last_user_message = Unwrap(parsed).last_user_message,
                            !.last_assistant_message =
                                Unwrap(parsed).last_assistant_message])
    ELSE IF starts_with(file.stem, AgentPrefix) THEN all_sessions
    ELSE LET parsed == parse_session_file(file)
         IN  IF ~IsSome(parsed) THEN all_sessions
             ELSE MapInsert(all_sessions, file.stem,
                    [Unwrap(parsed) EXCEPT
                        !.id = file.stem, !.active = FALSE,
                        !.project = Some(project_name),
                        !.cwd = IF @ = << >> THEN path_key_to_cwd(project_name) ELSE @])

ScanFile(all_sessions, project_name, file) ==
    IF file.ext # "jsonl" THEN all_sessions
    ELSE IF contains_key(all_sessions, file.stem)
        THEN LET parsed == parse_session_file(file)
                 existing == Unwrap(MapGet(all_sessions, file.stem))
             IN  IF ~IsSome(parsed) THEN all_sessions
                 ELSE MapInsert(all_sessions, file.stem,
                        [existing EXCEPT
                            !.summary = Unwrap(parsed).summary,
                            !.message_count = Unwrap(parsed).message_count,
                            !.last_user_message = Unwrap(parsed).last_user_message,
                            !.last_assistant_message =
                                Unwrap(parsed).last_assistant_message])
    ELSE IF starts_with(file.stem, AgentPrefix) THEN all_sessions
    ELSE LET parsed == parse_session_file(file)
         IN  IF ~IsSome(parsed) THEN all_sessions
             ELSE MapInsert(all_sessions, file.stem,
                    [Unwrap(parsed) EXCEPT
                        !.id = file.stem, !.active = FALSE,
                        !.project = Some(project_name),
                        !.cwd = IF @ = << >> THEN path_key_to_cwd(project_name) ELSE @])

RECURSIVE ScanFiles(_, _, _)
ScanFiles(all_sessions, project_name, files) ==
    IF files = << >> THEN all_sessions
    ELSE ScanFiles(ScanFile(all_sessions, project_name, Head(files)),
                   project_name, Tail(files))

\* The loop over project_dirs; a directory read_dir fails on is skipped.
RECURSIVE ScanDirs(_, _)
ScanDirs(all_sessions, dirs) ==
    IF dirs = << >> THEN all_sessions
    ELSE ScanDirs(
            IF Head(dirs).readable
            THEN ScanFiles(all_sessions, Head(dirs).name, Head(dirs).files)
            ELSE all_sessions,
            Tail(dirs))

\* list_sessions, step 2.
ScanDisk(all_sessions, cwd) == ScanDirs(all_sessions, ProjectDirs(cwd))

-----------------------------------------------------------------------------
(* list_sessions, steps 3 and 4: sort and paginate.                        *)

UsizeModulus == 2 ^ WordBits
UsizeMax == UsizeModulus - 1

SortCmpLeq_OldestFirst(a, b) == StrLeq(a.last_activity, b.last_activity)

\* The comparator |a, b| b.last_activity.cmp(&a.last_activity) does not put
\* b before a: a may stand before b in the sorted vector.
SortCmpLeq(a, b) == StrLeq(b.last_activity, a.last_activity)

\* sort_by on the vector collected from into_values(): the map yields its
\* values in an arbitrary order and the sort is stable, so the outcome is any
\* arrangement of the values the comparator accepts.
RECURSIVE SortOutcomes(_)
SortOutcomes(values) ==
    IF values = {} THEN {<< >>}
    ELSE UNION {{<<x>> \o rest : rest \in SortOutcomes(values \ {x})} :
                    x \in {y \in values : \A z \in values : SortCmpLeq(y, z)}}

Min(a, b) == IF a <= b THEN a ELSE b

\* sessions.into_iter().skip(offset).take(limit).collect()
Paginate(sessions, limit, offset) ==
    SubSeq(sessions, offset + 1, Min(offset + limit, Len(sessions)))

\* offset + limit on usize: the sum wraps when overflow checks are off.
WrappingAdd(a, b) == (a + b) % UsizeModulus
Overflows(a, b) == a + b > UsizeMax

\* What list_sessions returns for the merged map: the sorted vector (kept
\* beside the page it is cut to), the page, has_more and total.  The sum
\* offset + limit wraps or, in a build with overflow checks, panics.
ListResults(all_sessions, limit, offset) ==
    UNION {{[outcome |-> "returned", sorted |-> sessions,
             sessions |-> Paginate(sessions, limit, offset),
             has_more |-> WrappingAdd(offset, limit) < Len(sessions),
             total |-> Len(sessions)]}
           \cup (IF Overflows(offset, limit) THEN {[outcome |-> "panicked"]} ELSE {}) :
                sessions \in SortOutcomes(MapValues(all_sessions))}

\* The map list_sessions sorts: steps 1 and 2.
MergedSessions(map, cwd) == ScanDisk(SeedActive(map, cwd), cwd)

-----------------------------------------------------------------------------
(* find_session_file and get_session_info.                                 *)

HasSessionFile(dir, session_id) ==
    \E i \in 1..Len(dir.files) :
        dir.files[i].stem = session_id /\ dir.files[i].ext = "jsonl"

SessionFileIn(dir, session_id) ==
    dir.files[CHOOSE i \in 1..Len(dir.files) :
        dir.files[i].stem = session_id /\ dir.files[i].ext = "jsonl"]

\* The first project directory, in read_dir order, that holds <id>.jsonl:
\* Some([project_name, file]) or None.
find_session_file(session_id) ==
    IF disk.root # "ok" THEN None
    ELSE LET hits == SelectSeq(disk.entries,
                        LAMBDA d : d.is_dir /\ HasSessionFile(d, session_id))
         IN  IF hits = << >> THEN None
             ELSE Some([project_name |-> Head(hits).name,
                        file |-> SessionFileIn(Head(hits), session_id)])

\* get_session_info after the active sessions were looked up without a hit.
SessionInfoFromDisk(session_id) ==
    LET found == find_session_file(session_id)
    IN  IF ~IsSome(found) THEN None
        ELSE LET parsed == parse_session_file(Unwrap(found).file)
             IN  IF ~IsSome(parsed) THEN None
                 ELSE Some([Unwrap(parsed) EXCEPT
                        !.id = session_id, !.active = FALSE,
                        !.project = Some(Unwrap(found).project_name),
                        !.cwd = IF @ = << >>
                                THEN path_key_to_cwd(Unwrap(found).project_name)
                                ELSE @])

\* A lookup that prefers the transcript on disk to the table.
get_session_info_DiskFirst(map, session_id) ==
    IF IsSome(SessionInfoFromDisk(session_id)) THEN SessionInfoFromDisk(session_id)
    ELSE IF contains_key(map, session_id)
    THEN Some(ActiveInfo(session_id, Unwrap(MapGet(map, session_id))))
    ELSE None

get_session_info(map, session_id) ==
    IF contains_key(map, session_id)
    THEN Some(ActiveInfo(session_id, Unwrap(MapGet(map, session_id))))
    ELSE SessionInfoFromDisk(session_id)

-----------------------------------------------------------------------------
(* The session ids, transcripts and transcript trees the model draws.      *)

IdS1 == <<"s","1">>
IdS2 == <<"s","2">>
IdS3 == <<"s","3">>
IdAgent == <<"a","g","e","n","t","-","1">>
IdUnknown == <<"z","z">>

\* Ids the agent hands to register_session, and ids callers look up.
RegisteredIds == {IdS1, IdAgent}
LookupIds == {IdS1, IdS2, IdS3, IdAgent, IdUnknown}
WorkDirs == {CwdA, CwdBC}

\* A summary event attached through the parent pointer, two messages.
TranscriptSummarized == <<SummaryLine, UserLine, AssistantLine>>
TranscriptHi == <<UserLine>>
\* Nothing but a system reminder.
TranscriptSystemOnly == <<SystemLine>>
\* No line carries a "message" key.
TranscriptNoMessages == <<NoMessageLine, BlankLine>>
\* One message without text, cwd or timestamp.
TranscriptBare == <<NoTextLine>>

DirA(readable, s1file, s2file) ==
    [name |-> cwd_to_path_key(CwdA), is_dir |-> TRUE, readable |-> readable,
     files |-> <<DiskFile(IdS1, "jsonl", s1file), DiskFile(IdS2, "jsonl", s2file),
                 DiskFile(IdS3, "txt", File(TranscriptHi))>>]

DirBC(s3file, agentfile) ==
    [name |-> cwd_to_path_key(CwdBC), is_dir |-> TRUE, readable |-> TRUE,
     files |-> <<DiskFile(IdS3, "jsonl", s3file), DiskFile(IdAgent, "jsonl", agentfile)>>]

\* A second project directory holding a transcript named like one of DirA's.
DirDup(s1file) ==
    [name |-> cwd_to_path_key(CwdBC), is_dir |-> TRUE, readable |-> TRUE,
     files |-> <<DiskFile(IdS1, "jsonl", s1file)>>]

\* An entry of projects_dir that is a plain file.
StrayFile ==
    [name |-> <<"x">>, is_dir |-> FALSE, readable |-> FALSE, files |-> << >>]

FullTree ==
    <<DirA(TRUE, File(TranscriptSummarized), File(TranscriptHi)), StrayFile,
      DirBC(File(TranscriptBare), File(TranscriptHi))>>

Disks ==
    {[root |-> "missing", entries |-> << >>],
     [root |-> "ok", entries |-> FullTree],
     [root |-> "unreadable", entries |-> FullTree],
     \* a project directory that cannot be listed
     [root |-> "ok", entries |->
        <<DirA(FALSE, File(TranscriptSummarized), File(TranscriptHi)),
          DirBC(File(TranscriptBare), File(TranscriptHi))>>],
     \* an unreadable transcript, a system-only one and one without messages
     [root |-> "ok", entries |->
        <<DirA(TRUE, UnreadableFile, File(TranscriptSystemOnly)),
          DirBC(File(TranscriptNoMessages), File(TranscriptSummarized))>>],
     \* the same session id in two project directories
     [root |-> "ok", entries |->
        <<DirA(TRUE, File(TranscriptSummarized), File(TranscriptHi)),
          DirDup(File(TranscriptHi))>>],
     \* a transcript without messages for a session that may be active
     [root |-> "ok", entries |->
        <<DirBC(File(TranscriptHi), File(TranscriptNoMessages)),
          DirA(TRUE, File(TranscriptNoMessages), File(TranscriptSummarized))>>]}

EmptyDisk == [root |-> "missing", entries |-> << >>]

-----------------------------------------------------------------------------
(* The catalog specification: the registry's calls, one call a step.       *)

\* What a call that returns () leaves as the last response.
UnitResponse == [op |-> "unit"]

NoThreads == << >>
FreeLock == [writer |-> None, readers |-> {}]

Init ==
    /\ active_sessions = {}
    /\ clock = 0
    /\ disk \in Disks
    /\ response = UnitResponse
    /\ parser = ParserIdle
    /\ threads = NoThreads
    /\ lock = FreeLock

\* Time passes.
Tick ==
    /\ clock < MaxClock
    /\ clock' = clock + 1
    /\ UNCHANGED <<active_sessions, disk, response, parser, threads, lock>>

Register(id, cwd, modes, models) ==
    /\ active_sessions' = register_session(active_sessions, id, cwd, modes, models, clock)
    /\ response' = UnitResponse
    /\ UNCHANGED <<clock, disk, parser, threads, lock>>

Unregister(id) ==
    /\ active_sessions' = unregister_session(active_sessions, id)
    /\ response' = UnitResponse
    /\ UNCHANGED <<clock, disk, parser, threads, lock>>

UpdateActivity(id) ==
    /\ active_sessions' = update_activity(active_sessions, id, clock)
    /\ response' = UnitResponse
    /\ UNCHANGED <<clock, disk, parser, threads, lock>>

\* A listing that unregisters the sessions it has listed.
ListSessions_Reaping(cwd, limit, offset) ==
    /\ response = UnitResponse
    /\ \E result \in ListResults(MergedSessions(active_sessions, cwd), limit, offset) :
        response' = result @@ [op |-> "list_sessions", cwd |-> cwd,
                               limit |-> limit, offset |-> offset]
    /\ active_sessions' = {e \in active_sessions : ~(~IsSome(cwd) \/ e.value.cwd = Unwrap(cwd))}
    /\ UNCHANGED <<clock, disk, parser, threads, lock>>

\* list_sessions(cwd, limit, offset).  A query is recorded in the state the
\* last mutating call left: a second query there records nothing the first
\* cannot.
ListSessions(cwd, limit, offset) ==
    /\ response = UnitResponse
    /\ \E result \in ListResults(MergedSessions(active_sessions, cwd), limit, offset) :
        response' = result @@ [op |-> "list_sessions", cwd |-> cwd,
                               limit |-> limit, offset |-> offset]
    /\ UNCHANGED <<active_sessions, clock, disk, parser, threads, lock>>

GetSessionInfo(session_id) ==
    /\ response = UnitResponse
    /\ response' = [op |-> "get_session_info", session_id |-> session_id,
                    result |-> get_session_info(active_sessions, session_id)]
    /\ UNCHANGED <<active_sessions, clock, disk, parser, threads, lock>>

PageSizes == (0..MaxPage) \cup {UsizeMax}
CwdFilters == {None} \cup {Some(c) : c \in WorkDirs}

Next ==
    \/ Tick
    \/ \E id \in RegisteredIds, cwd \in WorkDirs : Register(id, cwd, None, None)
    \/ \E id \in RegisteredIds : Unregister(id)
    \/ \E id \in RegisteredIds : UpdateActivity(id)
    \/ \E cwd \in CwdFilters, limit \in PageSizes, offset \in PageSizes :
            ListSessions(cwd, limit, offset)
    \/ \E id \in LookupIds : GetSessionInfo(id)

Spec == Init /\ [][Next]_vars

-----------------------------------------------------------------------------
(* The parser specification.                                               *)

ParserFiles == {File(lines) : lines \in SeqsUpTo(LineAlphabet, MaxLines)} \cup {UnreadableFile}

InitParse ==
    /\ active_sessions = {}
    /\ clock = 0
    /\ disk = EmptyDisk
    /\ response = UnitResponse
    /\ threads = NoThreads
    /\ lock = FreeLock
    /\ \E file \in ParserFiles :
        parser = [file |-> file, pos |-> 0, st |-> ParseInit, done |-> FALSE,
                  result |-> None, first |-> None]

NextParse == ParseOpenFails \/ ParseNextLine \/ ParseEnd \/ ParseAgain \/ Tick

SpecParse == InitParse /\ [][NextParse]_vars

-----------------------------------------------------------------------------
(* The concurrent specification: callers on several threads, a step per    *)
(* lock acquisition, critical section, release and unlocked stretch of     *)
(* code.  threads[t].io names the file system access the thread's latest   *)
(* step made.                                                              *)

Threads == {1, 2}
IdleThread == [pc |-> "idle", io |-> "none"]

HoldsLock(t) == lock.writer = Some(t) \/ t \in lock.readers
\* RwLock::write and RwLock::read succeed.
CanWrite == lock.writer = None /\ lock.readers = {}
CanRead == lock.writer = None
Release(t) ==
    [writer |-> IF lock.writer = Some(t) THEN None ELSE lock.writer,
     readers |-> lock.readers \ {t}]

SetThread(t, rec) == threads' = [threads EXCEPT ![t] = rec]

\* register_session up to the lock: Utc::now() is read and the entry built.
RegisterStart(t, id, cwd, modes, models) ==
    /\ threads[t].pc = "idle"
    /\ SetThread(t, [pc |-> "register_built", io |-> "none", id |-> id, cwd |-> cwd,
                     modes |-> modes, models |-> models, now |-> clock])
    /\ UNCHANGED <<active_sessions, clock, disk, response, parser, lock>>

\* self.active_sessions.write() and sessions.insert(..); replaced is the
\* previous entry, which insert returns and the code drops.
RegisterInsert(t) ==
    /\ threads[t].pc = "register_built"
    /\ CanWrite
    /\ lock' = [lock EXCEPT !.writer = Some(t)]
    /\ active_sessions' =
            register_session(active_sessions, threads[t].id, threads[t].cwd,
                             threads[t].modes, threads[t].models, threads[t].now)
    /\ SetThread(t, [pc |-> "register_inserted", io |-> "none", id |-> threads[t].id,
                     cwd |-> threads[t].cwd, modes |-> threads[t].modes,
                     models |-> threads[t].models, now |-> threads[t].now,
                     replaced |-> MapGet(active_sessions, threads[t].id)])
    /\ UNCHANGED <<clock, disk, response, parser>>

\* unregister_session: the write lock and sessions.remove(id).
UnregisterRemove(t, id) ==
    /\ threads[t].pc = "idle"
    /\ CanWrite
    /\ lock' = [lock EXCEPT !.writer = Some(t)]
    /\ active_sessions' = unregister_session(active_sessions, id)
    /\ SetThread(t, [pc |-> "unregistered", io |-> "none", id |-> id])
    /\ UNCHANGED <<clock, disk, response, parser>>

\* update_activity and update_modes are called: the caller next waits for the
\* write lock.  seen records whether the id was registered when the call was
\* made.
UpdateActivityStart(t, id) ==
    /\ threads[t].pc = "idle"
    /\ SetThread(t, [pc |-> "activity_called", io |-> "none", id |-> id,
                     seen |-> contains_key(active_sessions, id)])
    /\ UNCHANGED <<active_sessions, clock, disk, response, parser, lock>>

UpdateModesStart(t, id, modes) ==
    /\ threads[t].pc = "idle"
    /\ SetThread(t, [pc |-> "modes_called", io |-> "none", id |-> id, modes |-> modes,
                     seen |-> contains_key(active_sessions, id)])
    /\ UNCHANGED <<active_sessions, clock, disk, response, parser, lock>>

\* update_activity: the write lock, then get_mut and Utc::now() under it;
\* before is the table the lock was taken on.
UpdateActivityLocked(t) ==
    /\ threads[t].pc = "activity_called"
    /\ CanWrite
    /\ lock' = [lock EXCEPT !.writer = Some(t)]
    /\ active_sessions' = update_activity(active_sessions, threads[t].id, clock)
    /\ SetThread(t, [pc |-> "activity_updated", io |-> "none", id |-> threads[t].id,
                     seen |-> threads[t].seen, before |-> active_sessions])
    /\ UNCHANGED <<clock, disk, response, parser>>

UpdateModesLocked(t) ==
    /\ threads[t].pc = "modes_called"
    /\ CanWrite
    /\ lock' = [lock EXCEPT !.writer = Some(t)]
    /\ active_sessions' = update_modes(active_sessions, threads[t].id, threads[t].modes)
    /\ SetThread(t, [pc |-> "modes_updated", io |-> "none", id |-> threads[t].id,
                     seen |-> threads[t].seen, before |-> active_sessions])
    /\ UNCHANGED <<clock, disk, response, parser>>

\* get_active_session, is_session_active and get_active_sessions: the read
\* lock and the lookup.
GetActiveSession(t, id) ==
    /\ threads[t].pc = "idle"
    /\ CanRead
    /\ lock' = [lock EXCEPT !.readers = @ \cup {t}]
    /\ SetThread(t, [pc |-> "table_read", io |-> "none",
                     result |-> get_active_session(active_sessions, id)])
    /\ UNCHANGED <<active_sessions, clock, disk, response, parser>>

IsSessionActive(t, id) ==
    /\ threads[t].pc = "idle"
    /\ CanRead
    /\ lock' = [lock EXCEPT !.readers = @ \cup {t}]
    /\ SetThread(t, [pc |-> "table_read", io |-> "none",
                     result |-> is_session_active(active_sessions, id)])
    /\ UNCHANGED <<active_sessions, clock, disk, response, parser>>

GetActiveSessions(t) ==
    /\ threads[t].pc = "idle"
    /\ CanRead
    /\ lock' = [lock EXCEPT !.readers = @ \cup {t}]
    /\ SetThread(t, [pc |-> "table_read", io |-> "none",
                     result |-> get_active_sessions(active_sessions)])
    /\ UNCHANGED <<active_sessions, clock, disk, response, parser>>

\* The guard of a table call is dropped as the call returns.
TableCallReturn(t) ==
    /\ threads[t].pc \in {"register_inserted", "unregistered", "activity_updated",
                          "modes_updated", "table_read"}
    /\ lock' = Release(t)
    /\ SetThread(t, IdleThread)
    /\ UNCHANGED <<active_sessions, clock, disk, response, parser>>

\* What a table holds of the sessions a filter admits: id, last_activity and
\* cwd.
TableHeld(map, cwd) ==
    {<<e.key, to_rfc3339(e.value.last_activity), e.value.cwd>> :
        e \in {x \in map : ~IsSome(cwd) \/ x.value.cwd = Unwrap(cwd)}}

\* list_sessions, step 1: the read lock and the loop over active.iter(),
\* which calls cwd_to_path_key, hence canonicalize, for every session it adds.
ListSeed(t, cwd, limit, offset) ==
    /\ threads[t].pc = "idle"
    /\ CanRead
    /\ lock' = [lock EXCEPT !.readers = @ \cup {t}]
    /\ SetThread(t, [pc |-> "list_seeded",
                     io |-> IF SeedActive(active_sessions, cwd) # {}
                            THEN "canonicalize" ELSE "none",
                     cwd |-> cwd, limit |-> limit, offset |-> offset,
                     all_sessions |-> SeedActive(active_sessions, cwd),
                     seeded |-> TableHeld(active_sessions, cwd)])
    /\ UNCHANGED <<active_sessions, clock, disk, response, parser>>

\* The block of step 1 ends: the read guard is dropped.
ListUnlock(t) ==
    /\ threads[t].pc = "list_seeded"
    /\ lock' = Release(t)
    /\ SetThread(t, [threads[t] EXCEPT !.pc = "list_unlocked", !.io = "none"])
    /\ UNCHANGED <<active_sessions, clock, disk, response, parser>>

\* A scan that takes the active sessions from the table as it is when the
\* scan starts.
ListScan_Reseeding(t) ==
    /\ threads[t].pc = "list_unlocked"
    /\ \E result \in ListResults(ScanDisk(SeedActive(active_sessions, threads[t].cwd),
                                          threads[t].cwd),
                                 threads[t].limit, threads[t].offset) :
        SetThread(t, [pc |-> "list_done", io |-> "scan", cwd |-> threads[t].cwd,
                      limit |-> threads[t].limit, offset |-> threads[t].offset,
                      seeded |-> threads[t].seeded, result |-> result])
    /\ UNCHANGED <<active_sessions, clock, disk, response, parser, lock>>

\* list_sessions, steps 2 to 4: the scan of the transcript tree, the sort and
\* the page.  seeded is a history field: what the table held at step 1.
ListScan(t) ==
    /\ threads[t].pc = "list_unlocked"
    /\ \E result \in ListResults(ScanDisk(threads[t].all_sessions, threads[t].cwd),
                                 threads[t].limit, threads[t].offset) :
        SetThread(t, [pc |-> "list_done", io |-> "scan", cwd |-> threads[t].cwd,
                      limit |-> threads[t].limit, offset |-> threads[t].offset,
                      seeded |-> threads[t].seeded, result |-> result])
    /\ UNCHANGED <<active_sessions, clock, disk, response, parser, lock>>

\* get_session_info: the read lock and active.get(session_id); the record of
\* a hit is built, with cwd_to_path_key, under the lock.
LookupActive(t, session_id) ==
    /\ threads[t].pc = "idle"
    /\ CanRead
    /\ lock' = [lock EXCEPT !.readers = @ \cup {t}]
    /\ SetThread(t, [pc |-> "lookup_locked",
                     io |-> IF contains_key(active_sessions, session_id)
                            THEN "canonicalize" ELSE "none",
                     session_id |-> session_id,
                     result |-> IF contains_key(active_sessions, session_id)
                                THEN get_session_info(active_sessions, session_id)
                                ELSE None])
    /\ UNCHANGED <<active_sessions, clock, disk, response, parser>>

\* The block ends: the guard is dropped, by the return of a hit or on the way
\* to the search on disk.
\* A lookup that answers from the table alone.
LookupUnlock_TableOnly(t) ==
    /\ threads[t].pc = "lookup_locked"
    /\ lock' = Release(t)
    /\ SetThread(t, [threads[t] EXCEPT !.pc = "lookup_done", !.io = "none"])
    /\ UNCHANGED <<active_sessions, clock, disk, response, parser>>

LookupUnlock(t) ==
    /\ threads[t].pc = "lookup_locked"
    /\ lock' = Release(t)
    /\ SetThread(t, [threads[t] EXCEPT
                        !.pc = IF IsSome(threads[t].result)
                               THEN "lookup_done" ELSE "lookup_unlocked",
                        !.io = "none"])
    /\ UNCHANGED <<active_sessions, clock, disk, response, parser>>

\* find_session_file and parse_session_file.
LookupDisk(t) ==
    /\ threads[t].pc = "lookup_unlocked"
    /\ SetThread(t, [threads[t] EXCEPT
                        !.pc = "lookup_done", !.io = "scan",
                        !.result = SessionInfoFromDisk(threads[t].session_id)])
    /\ UNCHANGED <<active_sessions, clock, disk, response, parser, lock>>

\* list_sessions or get_session_info returns.
QueryReturn(t) ==
    /\ threads[t].pc \in {"list_done", "lookup_done"}
    /\ SetThread(t, IdleThread)
    /\ UNCHANGED <<active_sessions, clock, disk, response, parser, lock>>

ConcIds == {IdS1}
\* Ids update_activity and update_modes are called with: IdS2 is never registered.
TouchedIds == ConcIds \cup {IdS2}
ModeStates == {"m1", "m2"}
ModelStates == {"x1"}

\* The transcript tree of the concurrent callers: FullTree and one more
\* project directory that holds a transcript named like one of DirA's.
DirL(s1file) ==
    [name |-> cwd_to_path_key(CwdL), is_dir |-> TRUE, readable |-> TRUE,
     files |-> <<DiskFile(IdS1, "jsonl", s1file)>>]
ConcTree == FullTree \o <<DirL(File(TranscriptHi))>>

InitConc ==
    /\ active_sessions = {}
    /\ clock = 0
    /\ disk = [root |-> "ok", entries |-> ConcTree]
    /\ response = UnitResponse
    /\ parser = ParserIdle
    /\ threads = [t \in Threads |-> IdleThread]
    /\ lock = FreeLock

NextConc ==
    \/ Tick
    \/ \E t \in Threads :
        \/ \E id \in ConcIds, cwd \in WorkDirs,
              modes \in {None, Some("m1")},
              models \in {Some(m) : m \in ModelStates} :
                RegisterStart(t, id, cwd, modes, models)
        \/ RegisterInsert(t)
        \/ \E id \in ConcIds : UnregisterRemove(t, id)
        \/ \E id \in TouchedIds : UpdateActivityStart(t, id)
        \/ UpdateActivityLocked(t)
        \/ \E id \in TouchedIds, modes \in ModeStates : UpdateModesStart(t, id, modes)
        \/ UpdateModesLocked(t)
        \/ \E id \in ConcIds : GetActiveSession(t, id)
        \/ \E id \in ConcIds : IsSessionActive(t, id)
        \/ GetActiveSessions(t)
        \/ TableCallReturn(t)
        \/ \E cwd \in CwdFilters : ListSeed(t, cwd, UsizeMax, 0)
        \/ ListUnlock(t)
        \/ ListScan(t)
        \/ \E id \in ConcIds : LookupActive(t, id)
        \/ LookupUnlock(t)
        \/ LookupDisk(t)
        \/ QueryReturn(t)

SpecConc == InitConc /\ [][NextConc]_vars

-----------------------------------------------------------------------------
(* load_session_chat_items: the messages of a transcript, the most recent  *)
(* MAX_HISTORY_ITEMS of them.                                              *)

MAX_HISTORY_ITEMS == 200

DigitValue(c) == CHOOSE n \in 0..9 : Digits[n + 1] = c

\* DateTime::parse_from_rfc3339 and timestamp(): the second of the instant a
\* string denotes, on the timestamps of the modelled minute; None for any
\* other string.
parse_from_rfc3339(ts) ==
    IF /\ Len(ts) >= 20
       /\ SubSeq(ts, 1, 17) = SubSeq(to_rfc3339(0), 1, 17)
       /\ ts[18] \in {"0","1","2","3","4","5"}
       /\ ts[19] \in {Digits[i] : i \in 1..10}
       /\ SubSeq(ts, 20, Len(ts)) \in {<<"Z">>, <<"+","0","0",":","0","0">>}
    THEN Some(10 * DigitValue(ts[18]) + DigitValue(ts[19]))
    ELSE None

\* timestamp_millis of an instant given in seconds.
timestamp_millis(t) == 1000 * t

\* The body of the loop over reader.lines(): chat_items after one line.  now
\* is what Utc::now() returns and fresh what Uuid::new_v4() returns, should
\* the line lack a timestamp or a uuid.
LoadLine(chat_items, line, now, fresh) ==
    IF line.kind # "json" THEN chat_items
    ELSE IF ~IsSome(line.sessionId) THEN chat_items
    ELSE IF line.isApiErrorMessage = Some(TRUE) THEN chat_items
    ELSE IF ~IsSome(line.message) THEN chat_items
    ELSE LET msg == Unwrap(line.message)
             content == extract_text_content(msg.content)
         IN  IF ~(IsSome(msg.role) /\ IsSome(content)) THEN chat_items
             ELSE IF is_system_message(Unwrap(content)) THEN chat_items
             ELSE IF Unwrap(msg.role) \notin {"user", "assistant"} THEN chat_items
             ELSE Append(chat_items,
                    [id |-> IF IsSome(line.uuid) THEN Unwrap(line.uuid) ELSE fresh,
                     role |-> Unwrap(msg.role),
                     content |-> Unwrap(content),
                     timestamp |->
                        IF IsSome(line.timestamp)
                           /\ IsSome(parse_from_rfc3339(Unwrap(line.timestamp)))
                        THEN timestamp_millis(
                                Unwrap(parse_from_rfc3339(Unwrap(line.timestamp))))
                        ELSE timestamp_millis(now)])

\* A cut that keeps the oldest items.
KeepRecent_Oldest(chat_items) ==
    SubSeq(chat_items, 1, Min(Len(chat_items), MAX_HISTORY_ITEMS))

\* "Keep only the most recent messages": split_off(total - MAX_HISTORY_ITEMS).
KeepRecent(chat_items) ==
    IF Len(chat_items) > MAX_HISTORY_ITEMS
    THEN SubSeq(chat_items, Len(chat_items) - MAX_HISTORY_ITEMS + 1, Len(chat_items))
    ELSE chat_items

\* Values Uuid::new_v4() may return.
GeneratedIds == {"g1", "g2"}

\* File::open fails: an empty vector is returned.
LoadOpenFails ==
    /\ ~parser.done /\ ~parser.file.readable
    /\ parser' = [parser EXCEPT !.done = TRUE, !.result = << >>]
    /\ UNCHANGED <<active_sessions, clock, disk, response, threads, lock>>

\* One iteration of the loop over reader.lines().
LoadNextLine ==
    /\ ~parser.done /\ parser.file.readable
    /\ parser.pos < Len(parser.file.lines)
    /\ \E fresh \in GeneratedIds :
        parser' = [parser EXCEPT
                    !.pos = @ + 1,
                    !.chat_items = LoadLine(@, parser.file.lines[parser.pos + 1],
                                            clock, fresh)]
    /\ UNCHANGED <<active_sessions, clock, disk, response, threads, lock>>

\* The loop is over: the cut to the most recent items and the return.
LoadEnd ==
    /\ ~parser.done /\ parser.file.readable
    /\ parser.pos = Len(parser.file.lines)
    /\ parser' = [parser EXCEPT !.done = TRUE, !.result = KeepRecent(parser.chat_items)]
    /\ UNCHANGED <<active_sessions, clock, disk, response, threads, lock>>

\* The k-th message of a long transcript, and a long transcript of n messages
\* with a line that is not a message after each of them.
HistoryLine(k) ==
    [MessageEntry(IF k % 2 = 1 THEN "user" ELSE "assistant",
                  ContentString(IF k % 2 = 1 THEN TextHi ELSE TextOk),
                  Some(TsZ(k % 60)))
        EXCEPT !.uuid = Some(ToString(k))]
HistoryNoise(k) ==
    IF k % 4 = 0 THEN BlankLine
    ELSE IF k % 4 = 1 THEN SystemLine
    ELSE IF k % 4 = 2 THEN ApiErrorLine
    ELSE NoMessageLine
LongTranscript(n) ==
    [i \in 1..(2 * n) |->
        IF i % 2 = 1 THEN HistoryLine((i + 1) \div 2) ELSE HistoryNoise(i \div 2)]

\* A message without uuid and timestamp, and one of a role that is neither
\* user nor assistant.
PlainLine == MessageEntry("user", ContentString(TextOk), None)
OtherRoleLine == MessageEntry("system", ContentString(TextHi), Some(TsZ(1)))

HistoryFiles ==
    {File(lines) : lines \in SeqsUpTo(LineAlphabet \cup {PlainLine, OtherRoleLine}, MaxLines)}
        \cup {File(LongTranscript(n)) :
                n \in {MAX_HISTORY_ITEMS - 1, MAX_HISTORY_ITEMS,
                       MAX_HISTORY_ITEMS + 1, MaxHistory}}
        \cup {UnreadableFile}

InitLoad ==
    /\ active_sessions = {}
    /\ clock = 0
    /\ disk = EmptyDisk
    /\ response = UnitResponse
    /\ threads = NoThreads
    /\ lock = FreeLock
    /\ \E file \in HistoryFiles :
        parser = [file |-> file, pos |-> 0, chat_items |-> << >>, done |-> FALSE,
                  result |-> << >>]

NextLoad == LoadOpenFails \/ LoadNextLine \/ LoadEnd

SpecLoad == InitLoad /\ [][NextLoad]_vars

-----------------------------------------------------------------------------
(* The helper specification: the path key codec and truncate_string, each  *)
(* applied to an input.  response holds the input and what was computed.   *)

UsersFooProject == <<"/","U","s","e","r","s","/","f","o","o","/","p","r","o","j","e","c","t">>
HomeUserMyProject == <<"/","h","o","m","e","/","u","s","e","r","/","m","y","_","p","r","o","j","e","c","t">>

PathChars == {"/", "_", "-", "a", "l"}
CodecPaths == SeqsUpTo(PathChars, MaxPath) \cup {UsersFooProject, HomeUserMyProject}

\* The length a preview is truncated to.
PreviewChars == 50

\* Texts of every length up to MaxText, in ASCII and with two-byte characters.
AsciiText(n) == [i \in 1..n |-> Ascii[34 + (i % 26)]]
AccentedText(n) == [i \in 1..n |-> IF i % 3 = 0 THEN "EACUTE" ELSE Ascii[34 + (i % 26)]]
TruncTexts == UNION {{AsciiText(n), AccentedText(n)} : n \in 0..MaxText}
TruncLimits == {0, 2, PreviewChars}

EncodePath ==
    /\ response.op = "path"
    /\ response' = [op |-> "cwd_to_path_key", cwd |-> response.cwd,
                    path_key |-> cwd_to_path_key(response.cwd)]
    /\ UNCHANGED <<active_sessions, clock, disk, parser, threads, lock>>

DecodeKey ==
    /\ response.op = "cwd_to_path_key"
    /\ response' = [op |-> "path_key_to_cwd", cwd |-> response.cwd,
                    path_key |-> response.path_key,
                    decoded |-> path_key_to_cwd(response.path_key)]
    /\ UNCHANGED <<active_sessions, clock, disk, parser, threads, lock>>

Truncate ==
    /\ response.op = "text"
    /\ response' = [op |-> "truncate_string", s |-> response.s,
                    max_chars |-> response.max_chars,
                    out |-> truncate_string(response.s, response.max_chars)]
    /\ UNCHANGED <<active_sessions, clock, disk, parser, threads, lock>>

InitHelpers ==
    /\ active_sessions = {}
    /\ clock = 0
    /\ disk = EmptyDisk
    /\ parser = ParserIdle
    /\ threads = NoThreads
    /\ lock = FreeLock
    /\ response \in {[op |-> "path", cwd |-> p] : p \in CodecPaths}
            \cup {[op |-> "text", s |-> s, max_chars |-> m] :
                        s \in TruncTexts, m \in TruncLimits}

NextHelpers == EncodePath \/ DecodeKey \/ Truncate

SpecHelpers == InitHelpers /\ [][NextHelpers]_vars

-----------------------------------------------------------------------------
(* The table specification: the Active Session Table under one caller.     *)
(* response records the last call: its name, its id and the table it found. *)

TableIds == {IdS1, IdS2}

TableCall(op, id) == [op |-> op, id |-> id, before |-> active_sessions]

TableRegister(id, cwd, modes, models) ==
    /\ active_sessions' = register_session(active_sessions, id, cwd, modes, models, clock)
    /\ response' = TableCall("register_session", id)
    /\ UNCHANGED <<clock, disk, parser, threads, lock>>

TableUnregister(id) ==
    /\ active_sessions' = unregister_session(active_sessions, id)
    /\ response' = TableCall("unregister_session", id)
    /\ UNCHANGED <<clock, disk, parser, threads, lock>>

TableUpdateActivity(id) ==
    /\ active_sessions' = update_activity(active_sessions, id, clock)
    /\ response' = TableCall("update_activity", id)
    /\ UNCHANGED <<clock, disk, parser, threads, lock>>

TableUpdateModes(id, modes) ==
    /\ active_sessions' = update_modes(active_sessions, id, modes)
    /\ response' = TableCall("update_modes", id)
    /\ UNCHANGED <<clock, disk, parser, threads, lock>>

InitTable ==
    /\ active_sessions = {}
    /\ clock = 0
    /\ disk = EmptyDisk
    /\ response = UnitResponse
    /\ parser = ParserIdle
    /\ threads = NoThreads
    /\ lock = FreeLock

NextTable ==
    \/ Tick
    \/ \E id \in TableIds, cwd \in WorkDirs, modes \in {None, Some("m1")},
          models \in {None} \cup {Some(m) : m \in ModelStates} :
            TableRegister(id, cwd, modes, models)
    \/ \E id \in TableIds : TableUnregister(id)
    \/ \E id \in TableIds : TableUpdateActivity(id)
    \/ \E id \in TableIds, modes \in ModeStates : TableUpdateModes(id, modes)

SpecTable == InitTable /\ [][NextTable]_vars

-----------------------------------------------------------------------------
(* The command specification: create_session, resume_session and           *)
(* fork_session, each an asynchronous task that awaits the agent and then  *)
(* registers what the agent answered.  The agent is outside this code: it  *)
(* answers Ok with any session id, modes and models, or Err.               *)

SessionCommands == {"create_session", "resume_session", "fork_session"}
AgentIds == {IdS1, IdS2}
AgentResponses ==
    [session_id : AgentIds, modes : {None, Some("m1")}, models : {Some("x1")}]

\* A command that registers the session it was asked for before it awaits
\* the agent.
CommandStart_RegisterFirst(t, command, session_id, cwd) ==
    /\ threads[t].pc = "idle"
    /\ SetThread(t, [pc |-> "agent_awaiting", io |-> "none", command |-> command,
                     session_id |-> session_id, cwd |-> cwd])
    /\ active_sessions' =
            IF IsSome(session_id)
            THEN register_session(active_sessions, Unwrap(session_id), cwd, None, None, clock)
            ELSE active_sessions
    /\ UNCHANGED <<clock, disk, response, parser, lock>>

\* The command is invoked and calls manager.create_session(&cwd),
\* resume_session(&session_id, &cwd) or fork_session(&session_id, &cwd);
\* session_id is None for create_session.
CommandStart(t, command, session_id, cwd) ==
    /\ threads[t].pc = "idle"
    /\ SetThread(t, [pc |-> "agent_awaiting", io |-> "none", command |-> command,
                     session_id |-> session_id, cwd |-> cwd])
    /\ UNCHANGED <<active_sessions, clock, disk, response, parser, lock>>

\* The awaited call resolves to Ok(response).
AgentReturnsOk(t, agent_response) ==
    /\ threads[t].pc = "agent_awaiting"
    /\ SetThread(t, [pc |-> "agent_ok", io |-> "none", command |-> threads[t].command,
                     session_id |-> threads[t].session_id, cwd |-> threads[t].cwd,
                     response |-> agent_response])
    /\ UNCHANGED <<active_sessions, clock, disk, response, parser, lock>>

\* The awaited call resolves to Err(e): map_err and ? return Err(e.to_string()).
AgentReturnsErr(t) ==
    /\ threads[t].pc = "agent_awaiting"
    /\ SetThread(t, [pc |-> "returned", io |-> "none", command |-> threads[t].command,
                     session_id |-> threads[t].session_id, cwd |-> threads[t].cwd,
                     result |-> "Err"])
    /\ UNCHANGED <<active_sessions, clock, disk, response, parser, lock>>

\* state.session_registry.register_session(response.session_id.clone(), cwd,
\* response.modes.clone(), response.models.clone())
CommandRegister(t) ==
    /\ threads[t].pc = "agent_ok"
    /\ active_sessions' =
            register_session(active_sessions, threads[t].response.session_id,
                             threads[t].cwd, threads[t].response.modes,
                             threads[t].response.models, clock)
    /\ SetThread(t, [threads[t] EXCEPT !.pc = "registered"])
    /\ UNCHANGED <<clock, disk, response, parser, lock>>

\* Ok(response)
CommandReturnsOk(t) ==
    /\ threads[t].pc = "registered"
    /\ SetThread(t, [pc |-> "returned", io |-> "none", command |-> threads[t].command,
                     session_id |-> threads[t].session_id, cwd |-> threads[t].cwd,
                     result |-> "Ok", response |-> threads[t].response])
    /\ UNCHANGED <<active_sessions, clock, disk, response, parser, lock>>

\* The task is over.
CommandDone(t) ==
    /\ threads[t].pc = "returned"
    /\ SetThread(t, IdleThread)
    /\ UNCHANGED <<active_sessions, clock, disk, response, parser, lock>>

InitCommands ==
    /\ active_sessions = {}
    /\ clock = 0
    /\ disk = EmptyDisk
    /\ response = UnitResponse
    /\ parser = ParserIdle
    /\ threads = [t \in Threads |-> IdleThread]
    /\ lock = FreeLock

NextCommands ==
    \E t \in Threads :
        \/ \E cwd \in WorkDirs : CommandStart(t, "create_session", None, cwd)
        \/ \E command \in {"resume_session", "fork_session"}, cwd \in WorkDirs :
                CommandStart(t, command, Some(IdS1), cwd)
        \/ \E agent_response \in AgentResponses : AgentReturnsOk(t, agent_response)
        \/ AgentReturnsErr(t)
        \/ CommandRegister(t)
        \/ CommandReturnsOk(t)
        \/ CommandDone(t)

SpecCommands == InitCommands /\ [][NextCommands]_vars

-----------------------------------------------------------------------------
(* The summary specification: parse_session_file, a line a step, on        *)
(* transcripts with several summary events, several messages of each role, *)
(* a message longer than the preview and timestamps out of file order.     *)

TextTwo == <<"T","w","o">>
TextOwn == <<"O","w","n">>
TextYa == <<"y","a">>
TextYo == <<"y","o">>

\* A second summary event, staged under another leafUuid; it has no
\* sessionId and carries a timestamp.
LateSummaryLine ==
    [EmptyEntry EXCEPT !.type = Some("summary"), !.summary = Some(TextTwo),
                       !.leafUuid = Some("u2"), !.timestamp = Some(TsZ(3))]
\* A summary event whose text is "New Session".
UntitledSummaryLine ==
    [EmptyEntry EXCEPT !.type = Some("summary"), !.summary = Some(NewSession),
                       !.leafUuid = Some("u1")]
\* A summary event that carries a sessionId.
SessionSummaryLine ==
    [EmptyEntry EXCEPT !.type = Some("summary"), !.summary = Some(TextOwn),
                       !.sessionId = Some("sid")]
ReplyLine ==
    [MessageEntry("assistant", ContentString(TextYa), Some(TsZ(2)))
        EXCEPT !.parentUuid = Some("u2")]
FollowUpLine == MessageEntry("user", ContentArray(<<ItemString(TextYo)>>), None)
LongUserLine == MessageEntry("user", ContentString(AccentedText(PreviewChars + 2)), None)

SummaryAlphabet ==
    {SummaryLine, LateSummaryLine, UntitledSummaryLine, SessionSummaryLine,
     UserLine, ReplyLine, AssistantLine, FollowUpLine, LongUserLine,
     ApiErrorLine, SystemLine, WarmupLine}

\* Two summary events at the head of a transcript.  Beside the transcripts
\* of up to MaxLines lines, with and without that head, SummaryFiles holds
\* one-line transcripts whose modification time cannot be read.
StagedPrefix == <<SummaryLine, LateSummaryLine>>

SummaryFiles ==
    {File(lines) : lines \in SeqsUpTo(SummaryAlphabet, MaxLines)}
    \cup {File(StagedPrefix \o lines) : lines \in SeqsUpTo(SummaryAlphabet, MaxLines)}
    \cup {[File(<<line>>) EXCEPT !.mtime = None] : line \in SummaryAlphabet}
    \cup {UnreadableFile}

InitSummary ==
    /\ active_sessions = {}
    /\ clock = 0
    /\ disk = EmptyDisk
    /\ response = UnitResponse
    /\ threads = NoThreads
    /\ lock = FreeLock
    /\ \E file \in SummaryFiles :
        parser = [file |-> file, pos |-> 0, st |-> ParseInit, done |-> FALSE,
                  result |-> None]

NextSummary == ParseOpenFails \/ ParseNextLine \/ ParseEnd

SpecSummary == InitSummary /\ [][NextSummary]_vars

-----------------------------------------------------------------------------
(* The ordering specification: two records stamped at instants with a      *)
(* sub-second part, by the table's clock, by a transcript line or by a     *)
(* file's modification time, and sorted as list_sessions sorts.            *)

\* The decimal digits of n, padded with zeros to width.
RECURSIVE Decimal(_, _)
Decimal(n, width) ==
    IF width = 0 THEN << >>
    ELSE Decimal(n \div 10, width - 1) \o <<Digit(n % 10)>>

\* DateTime<Utc>::to_rfc3339 of the instant secs + nanos / 10^9: the
\* fraction is left out when it is zero and printed with 3, 6 or 9 digits,
\* as few as hold it, otherwise; the offset is printed +00:00.
to_rfc3339_nanos(secs, nanos) ==
    SubSeq(to_rfc3339(secs), 1, 19)
        \o (IF nanos = 0 THEN << >>
            ELSE IF nanos % 1000000 = 0 THEN <<".">> \o Decimal(nanos \div 1000000, 3)
            ELSE IF nanos % 1000 = 0 THEN <<".">> \o Decimal(nanos \div 1000, 6)
            ELSE <<".">> \o Decimal(nanos, 9))
        \o <<"+","0","0",":","0","0">>

\* A transcript timestamp as the agent tooling writes it: milliseconds, Z.
TsMillisZ(secs, millis) ==
    SubSeq(to_rfc3339(secs), 1, 19) \o <<".">> \o Decimal(millis, 3) \o <<"Z">>

\* Sub-second parts, in nanoseconds, and those a millisecond stamp can hold.
SubSecondNanos == {0, 500 * 1000000, 500 * 1000000 + 1, 500 * 1000000 + 1000}
WholeMillis == {n \in SubSecondNanos : n % 1000000 = 0}

\* A record with the instant its last_activity was stamped at; stamped is
\* "clock" (Utc::now() in the table), "transcript" (the timestamp of a line)
\* or "mtime" (the file's modification time).
StampedRecord(id, stamped, secs, nanos) ==
    [id |-> id, stamped |-> stamped, secs |-> secs, nanos |-> nanos,
     last_activity |->
        IF stamped = "transcript" THEN TsMillisZ(secs, nanos \div 1000000)
        ELSE to_rfc3339_nanos(secs, nanos)]

StampedRecords(id) ==
    {StampedRecord(id, stamped, secs, nanos) :
        stamped \in {"clock", "mtime"}, secs \in 0..MaxClock, nanos \in SubSecondNanos}
    \cup {StampedRecord(id, "transcript", secs, nanos) :
        secs \in 0..MaxClock, nanos \in WholeMillis}

\* sessions.sort_by(|a, b| b.last_activity.cmp(&a.last_activity))
SortRecords ==
    /\ response.op = "all_sessions"
    /\ \E sessions \in SortOutcomes(response.values) :
        response' = [op |-> "sort_by", sessions |-> sessions]
    /\ UNCHANGED <<active_sessions, clock, disk, parser, threads, lock>>

InitOrder ==
    /\ active_sessions = {}
    /\ clock = 0
    /\ disk = EmptyDisk
    /\ parser = ParserIdle
    /\ threads = NoThreads
    /\ lock = FreeLock
    /\ \E a \in StampedRecords(IdS1), b \in StampedRecords(IdS2) :
        response = [op |-> "all_sessions", values |-> {a, b}]

NextOrder == SortRecords

SpecOrder == InitOrder /\ [][NextOrder]_vars

-----------------------------------------------------------------------------
(* The two entry points of the parser on the same transcripts: a run of    *)
(* parse_session_file (parser.st) or of load_session_chat_items            *)
(* (parser.chat_items), a line a step.                                     *)

IsParseRun == "st" \in DOMAIN parser
IsLoadRun == "chat_items" \in DOMAIN parser

Summarize == IsParseRun /\ (ParseOpenFails \/ ParseNextLine \/ ParseEnd)
LoadMessages == IsLoadRun /\ (LoadOpenFails \/ LoadNextLine \/ LoadEnd)

InitEntryPoints ==
    /\ active_sessions = {}
    /\ clock = 0
    /\ disk = EmptyDisk
    /\ response = UnitResponse
    /\ threads = NoThreads
    /\ lock = FreeLock
    /\ \E file \in ParserFiles :
        parser \in {[file |-> file, pos |-> 0, st |-> ParseInit, done |-> FALSE,
                     result |-> None],
                    [file |-> file, pos |-> 0, chat_items |-> << >>, done |-> FALSE,
                     result |-> << >>]}

NextEntryPoints == Summarize \/ LoadMessages

SpecEntryPoints == InitEntryPoints /\ [][NextEntryPoints]_vars

-----------------------------------------------------------------------------
(* Vocabulary of the claims.                                               *)

IsListResponse == response.op = "list_sessions" /\ response.outcome = "returned"
IsLookupResponse == response.op = "get_session_info"
ActiveIds == {e.key : e \in active_sessions}

\* The transcript files named <id>.jsonl in the project directories.
FilesOnDisk(id) ==
    UNION {{d.files[j] : j \in {k \in 1..Len(d.files) :
                            d.files[k].stem = id /\ d.files[k].ext = "jsonl"}} :
                d \in {disk.entries[i] : i \in 1..Len(disk.entries)}}
OnDisk(id) ==
    \E i \in 1..Len(disk.entries) :
        /\ disk.entries[i].is_dir
        /\ HasSessionFile(disk.entries[i], id)

\* Positions <<i, j>> of the files <id>.jsonl an unfiltered scan reaches and
\* summarizes to a record, and the one it reaches last.
ScanHits(id) ==
    LET dirs == ProjectDirs(None)
    IN  {p \in UNION {{<<i, j>> : j \in 1..Len(dirs[i].files)} : i \in 1..Len(dirs)} :
            /\ dirs[p[1]].readable
            /\ dirs[p[1]].files[p[2]].stem = id
            /\ dirs[p[1]].files[p[2]].ext = "jsonl"
            /\ IsSome(parse_session_file(dirs[p[1]].files[p[2]]))}
LastScanHit(id) ==
    LET p == CHOOSE p \in ScanHits(id) :
                \A q \in ScanHits(id) : q[1] < p[1] \/ (q[1] = p[1] /\ q[2] <= p[2])
    IN  Unwrap(parse_session_file(ProjectDirs(None)[p[1]].files[p[2]]))

Positions(seq, id) == {i \in 1..Len(seq) : seq[i].id = id}
DisplayFields(info) ==
    <<info.summary, info.message_count, info.last_user_message,
      info.last_assistant_message>>
PlaceholderFields == <<ActiveSummary, 0, None, None>>
WholeCatalog == response.offset = 0 /\ response.limit >= response.total

\* A line that carries a message event and is not a system message.
IsCountable(line) ==
    /\ line.kind = "json"
    /\ IsSome(line.sessionId)
    /\ IsSome(line.message)
    /\ LET text == extract_text_content(Unwrap(line.message).content)
       IN  ~(IsSome(text) /\ is_system_message(Unwrap(text)))
Countable(lines) == Cardinality({i \in 1..Len(lines) : IsCountable(lines[i])})

-----------------------------------------------------------------------------
(* Claims about the catalog (specification Spec).                          *)

C2_Pagination_AsStated ==
    IsListResponse =>
        LET total == Len(response.sorted)
            first == response.offset + 1
            last == Min(response.offset + response.limit, total)
        IN  /\ response.total = total
            /\ response.sessions = [i \in 1..(IF last >= first THEN last - first + 1 ELSE 0)
                                        |-> response.sorted[response.offset + i]]
            /\ Len(response.sessions) =
                    Min(response.limit,
                        IF total >= response.offset THEN total - response.offset ELSE 0)
            /\ response.has_more <=> (response.offset + response.limit < total)

\* C3: the records of a page are in descending order of last_activity
\* (byte-wise string order), and a record of a page is not smaller than any
\* record that stands after its position in any sorted arrangement of the
\* same set, hence than any record of a later page.
C3_SortedNewestFirst ==
    IsListResponse =>
        /\ \A i, j \in 1..Len(response.sessions) :
                i < j => StrLeq(response.sessions[j].last_activity,
                                response.sessions[i].last_activity)
        /\ \A other \in SortOutcomes({response.sorted[k] : k \in 1..Len(response.sorted)}) :
                \A i \in 1..Len(response.sessions) :
                    \A j \in (response.offset + i + 1)..Len(other) :
                        StrLeq(other[j].last_activity, response.sessions[i].last_activity)

\* C3 witness: a page of two records with different timestamps, not the first
\* page, of a set with a record on an earlier page.
C3_Witness ==
    /\ IsListResponse
    /\ response.offset = 1
    /\ Len(response.sessions) = 2
    /\ response.sessions[1].last_activity # response.sessions[2].last_activity
    /\ response.total > 3

\* C5 as stated: a transcript with no countable message line yields no record:
\* every historical record of a list, and every historical record
\* get_session_info returns, has a transcript with a countable line.
C5_EmptyTranscriptNoRecord_AsStated ==
    /\ IsListResponse =>
        \A i \in 1..Len(response.sorted) :
            ~response.sorted[i].active =>
                \E file \in FilesOnDisk(response.sorted[i].id) : Countable(file.lines) > 0
    /\ (IsLookupResponse /\ IsSome(response.result)) =>
        (~Unwrap(response.result).active =>
            \E file \in FilesOnDisk(response.session_id) : Countable(file.lines) > 0)

\* C6 as stated: no record whose id starts with "agent-" is returned by
\* list_sessions or by get_session_info.
C6_NoAgentRecords_AsStated ==
    /\ IsListResponse =>
        \A i \in 1..Len(response.sessions) :
            ~starts_with(response.sessions[i].id, AgentPrefix)
    /\ (IsLookupResponse /\ IsSome(response.result)) =>
        ~starts_with(Unwrap(response.result).id, AgentPrefix)

\* C7 as stated: a list call always returns a response, whatever cannot be
\* read, and every readable transcript of a listed directory that summarizes
\* to a record still contributes it.
C7_ListAlwaysReturns_AsStated ==
    response.op = "list_sessions" =>
        /\ response.outcome = "returned"
        /\ response.cwd = None =>
            \A id \in LookupIds :
                (ScanHits(id) # {} /\ ~starts_with(id, AgentPrefix))
                    => Positions(response.sorted, id) # {}

-----------------------------------------------------------------------------
(* Claims about the parser (specification SpecParse).                      *)

\* The line the parser is about to read is a message whose text is a system
\* message.
AtSystemLine ==
    /\ ~parser.done /\ parser.file.readable
    /\ parser.pos < Len(parser.file.lines)
    /\ LET line == parser.file.lines[parser.pos + 1]
       IN  /\ line.kind = "json"
           /\ IsSome(line.sessionId)
           /\ IsSome(line.message)
           /\ LET text == extract_text_content(Unwrap(line.message).content)
              IN  IsSome(text) /\ is_system_message(Unwrap(text))

\* C4 as stated: reading a message line whose text begins with a system marker
\* leaves message_count and both previews as they were.
C4_SystemLineNotCounted_AsStated ==
    [][AtSystemLine =>
        /\ parser'.st.message_count = parser.st.message_count
        /\ parser'.st.last_user_message = parser.st.last_user_message
        /\ parser'.st.last_assistant_message = parser.st.last_assistant_message]_vars

-----------------------------------------------------------------------------
(* Claims about concurrent callers (specification SpecConc).               *)

\* C8 as stated: no thread touches the file system (directory scan,
\* transcript read, canonicalize) in a step it ends holding the lock of the
\* Active Session Table.
C8_NoIoUnderLock_AsStated ==
    \A t \in Threads : HoldsLock(t) => threads[t].io = "none"

\* C9: under every interleaving of register, unregister, touch and
\* update_modes, the table holds at most one entry per session id and the id
\* field of every entry is the key it is stored under.
C9_OneStatePerId ==
    /\ \A e1, e2 \in active_sessions : e1.key = e2.key => e1 = e2
    /\ \A e \in active_sessions : e.value.id = e.key

\* C9 witness: a register has replaced the entry of its id while the other
\* thread is about to register, and the table holds one entry.
C9_Witness ==
    \E t, u \in Threads :
        /\ threads[t].pc = "register_inserted"
        /\ IsSome(threads[t].replaced)
        /\ threads[u].pc = "register_built"
        /\ Cardinality(active_sessions) = 1

\* C10: right after register(id, cwd, modes, models) has inserted, with the
\* write lock still held, get(id) is the entry with exactly the given cwd,
\* modes and models and with created_at = last_activity = the instant the call
\* read, whatever entry the id had before.
C10_RegisterOverwrites ==
    \A t \in Threads :
        threads[t].pc = "register_inserted" =>
            get_active_session(active_sessions, threads[t].id) =
                Some([id |-> threads[t].id, cwd |-> threads[t].cwd,
                      created_at |-> threads[t].now, last_activity |-> threads[t].now,
                      modes |-> threads[t].modes, models |-> threads[t].models])

\* C10 witness: a register has replaced an entry that had another cwd, other
\* modes, an earlier created_at and a last_activity later than created_at.
C10_Witness ==
    \E t \in Threads :
        /\ threads[t].pc = "register_inserted"
        /\ IsSome(threads[t].replaced)
        /\ Unwrap(threads[t].replaced).cwd # threads[t].cwd
        /\ Unwrap(threads[t].replaced).modes # threads[t].modes
        /\ Unwrap(threads[t].replaced).created_at < threads[t].now
        /\ Unwrap(threads[t].replaced).created_at < Unwrap(threads[t].replaced).last_activity


-----------------------------------------------------------------------------
\* C11: unregister(id) removes the entry of id if there is one and does
\* nothing if there is none: afterwards id is not in the table and the
\* entries of all other ids are exactly those the call found.
C11_UnregisterRemovesOnlyId ==
    response.op = "unregister_session" =>
        /\ ~contains_key(active_sessions, response.id)
        /\ active_sessions = {e \in response.before : e.key # response.id}
        /\ (~contains_key(response.before, response.id)
                => active_sessions = response.before)

\* An unregister of a present id that left another session registered, and
\* the table is what that call left.
C11_Witness ==
    /\ response.op = "unregister_session"
    /\ contains_key(response.before, response.id)
    /\ \E e \in active_sessions : e.key # response.id

-----------------------------------------------------------------------------
\* C12: update_activity(id) and update_modes(id, modes) on an id that is not
\* in the table when the write lock is taken leave the table exactly as the
\* lock found it and create no entry, whether the id was never registered or
\* was unregistered while the caller waited for the lock.
C12_UpdateOfAbsentIdIsNoOp ==
    \A t \in Threads :
        (/\ threads[t].pc \in {"activity_updated", "modes_updated"}
         /\ ~contains_key(threads[t].before, threads[t].id))
            => /\ active_sessions = threads[t].before
               /\ ~contains_key(active_sessions, threads[t].id)

\* An update whose id was registered when the call was made and gone when the
\* call took the lock.
C12_Witness ==
    \E t \in Threads :
        /\ threads[t].pc \in {"activity_updated", "modes_updated"}
        /\ threads[t].seen
        /\ ~contains_key(threads[t].before, threads[t].id)

-----------------------------------------------------------------------------
\* The project directories, by position under the transcript root, that hold
\* a file <id>.jsonl.
Holders(id) ==
    {i \in 1..Len(disk.entries) :
        disk.entries[i].is_dir /\ HasSessionFile(disk.entries[i], id)}
FirstHolder(id) == disk.entries[CHOOSE i \in Holders(id) : \A j \in Holders(id) : i <= j]

\* C13 as stated: get_session_info(id) returns the active record when id is
\* registered, and returns absent exactly when id is neither registered nor
\* the name of a transcript file in some project directory.
C13_AbsentIffInNeitherSource_AsStated ==
    IsLookupResponse =>
        /\ (response.session_id \in ActiveIds
                => IsSome(response.result) /\ Unwrap(response.result).active)
        /\ (response.result = None
                <=> (response.session_id \notin ActiveIds /\ ~OnDisk(response.session_id)))

\* C13: get_session_info(id) returns the active record, with the placeholder
\* display fields, when id is registered.  Otherwise it takes the first
\* project directory, in listing order, that holds <id>.jsonl: when that file
\* summarizes to a record it returns the record with the id, active = false,
\* the directory name as project key and, when the transcript carried no cwd,
\* the decoded directory name as cwd.  It returns absent in every other case:
\* the root is missing or cannot be listed, no directory holds the file, or
\* the first file found is unreadable or has no counted message.
C13_LookupSources ==
    IsLookupResponse =>
        LET id == response.session_id
        IN  IF id \in ActiveIds
            THEN LET entry == CHOOSE e \in active_sessions : e.key = id
                 IN  /\ IsSome(response.result)
                     /\ Unwrap(response.result).id = id
                     /\ Unwrap(response.result).active
                     /\ Unwrap(response.result).cwd = entry.value.cwd
                     /\ Unwrap(response.result).last_activity
                            = to_rfc3339(entry.value.last_activity)
                     /\ DisplayFields(Unwrap(response.result)) = PlaceholderFields
            ELSE IF /\ disk.root = "ok"
                    /\ Holders(id) # {}
                    /\ IsSome(parse_session_file(SessionFileIn(FirstHolder(id), id)))
            THEN LET parsed == Unwrap(parse_session_file(SessionFileIn(FirstHolder(id), id)))
                 IN  /\ IsSome(response.result)
                     /\ Unwrap(response.result).id = id
                     /\ ~Unwrap(response.result).active
                     /\ Unwrap(response.result).project = Some(FirstHolder(id).name)
                     /\ Unwrap(response.result).cwd =
                            (IF parsed.cwd = << >>
                             THEN path_key_to_cwd(FirstHolder(id).name) ELSE parsed.cwd)
                     /\ Unwrap(response.result).last_activity = parsed.last_activity
                     /\ DisplayFields(Unwrap(response.result)) = DisplayFields(parsed)
            ELSE response.result = None

\* A lookup of a registered id whose transcript is on disk and summarizes to
\* a record: the table was consulted first.
C13_Witness ==
    /\ IsLookupResponse
    /\ response.session_id \in ActiveIds
    /\ disk.root = "ok"
    /\ Holders(response.session_id) # {}
    /\ IsSome(parse_session_file(SessionFileIn(FirstHolder(response.session_id),
                                               response.session_id)))
    /\ Unwrap(response.result).active

-----------------------------------------------------------------------------
\* C14: a step that is a list_sessions or a get_session_info call, whatever
\* its arguments and its outcome, leaves the Active Session Table (ids and
\* every field of every entry) and the transcript store as they were.
C14_QueriesArePureReads ==
    [][(response.op = "unit" /\ response'.op \in {"list_sessions", "get_session_info"})
            => (active_sessions' = active_sessions /\ disk' = disk)]_vars

\* A listing was made over a table with registered sessions and a transcript
\* tree with project directories.
C14_Witness ==
    /\ response.op = "list_sessions"
    /\ active_sessions # {}
    /\ disk.root = "ok"
    /\ disk.entries # << >>

-----------------------------------------------------------------------------
\* A line load_messages accepts: a JSON object with a sessionId, not flagged
\* as an API error, whose message has the role user or assistant and a text
\* that is not a system message.
IsHistoryMessage(line) ==
    /\ line.kind = "json"
    /\ IsSome(line.sessionId)
    /\ line.isApiErrorMessage # Some(TRUE)
    /\ IsSome(line.message)
    /\ Unwrap(line.message).role \in {Some("user"), Some("assistant")}
    /\ IsSome(extract_text_content(Unwrap(line.message).content))
    /\ ~is_system_message(Unwrap(extract_text_content(Unwrap(line.message).content)))

\* The positions of the accepted lines of a transcript, in file order.
HistoryPositions(lines) ==
    SelectSeq([i \in 1..Len(lines) |-> i], LAMBDA i : IsHistoryMessage(lines[i]))

\* C15: load_session_chat_items of a readable transcript with n accepted
\* lines returns min(n, 200) messages, and they are the last min(n, 200)
\* accepted lines in file order: the j-th message returned has the role, the
\* text and (when the line has one) the uuid of the j-th of those lines.
C15_LastTwoHundredInOrder ==
    (parser.done /\ parser.file.readable) =>
        LET lines == parser.file.lines
            accepted == HistoryPositions(lines)
            n == Len(accepted)
            kept == Min(n, 200)
        IN  /\ Len(parser.result) = kept
            /\ \A j \in 1..kept :
                LET line == lines[accepted[n - kept + j]]
                    item == parser.result[j]
                IN  /\ item.role = Unwrap(Unwrap(line.message).role)
                    /\ item.content = Unwrap(extract_text_content(Unwrap(line.message).content))
                    /\ IsSome(line.uuid) => item.id = Unwrap(line.uuid)

\* A transcript with more than 200 accepted lines was loaded and cut: the
\* first message returned is accepted line n - 199.
C15_Witness ==
    /\ parser.done /\ parser.file.readable
    /\ Len(HistoryPositions(parser.file.lines)) > 200
    /\ Len(parser.result) = 200
    /\ parser.result[1].id = ToString(Len(HistoryPositions(parser.file.lines)) - 199)

-----------------------------------------------------------------------------
HasFolded(p) == \E i \in 1..Len(p) : p[i] \in {"_", "-"}

\* C16: for a working directory that does not canonicalize to a different
\* string, encode puts '-' for every '/', decode puts '/' for every '-' and
\* leaves every other character, so decode(encode(p)) = p when p contains
\* neither '_' nor '-' and decode(encode(p)) # p when it contains one;
\* encode("/Users/foo/project") = "-Users-foo-project" and decode takes that
\* key back to "/Users/foo/project".
C16_CodecRoundTrip ==
    (/\ response.op = "path_key_to_cwd"
     /\ canonicalize(response.cwd) \in {None, Some(response.cwd)}) =>
        /\ Len(response.path_key) = Len(response.cwd)
        /\ Len(response.decoded) = Len(response.path_key)
        /\ \A i \in 1..Len(response.cwd) :
                /\ response.cwd[i] = "/" => response.path_key[i] = "-"
                /\ response.decoded[i] =
                        (IF response.path_key[i] = "-" THEN "/" ELSE response.path_key[i])
        /\ ~HasFolded(response.cwd) => response.decoded = response.cwd
        /\ HasFolded(response.cwd) => response.decoded # response.cwd
        /\ response.cwd = UsersFooProject =>
                response.path_key = <<"-","U","s","e","r","s","-","f","o","o","-","p","r","o","j","e","c","t">>

\* The round trip of "/Users/foo/project" was made.
C16_Witness ==
    /\ response.op = "path_key_to_cwd"
    /\ response.cwd = UsersFooProject
    /\ response.decoded = UsersFooProject

\* The path cwd_to_path_key encodes: the canonical path, or the literal one
\* when there is none.
Resolved(p) == IF IsSome(canonicalize(p)) THEN Unwrap(canonicalize(p)) ELSE p

\* Two paths that differ only in '/', '_' and '-' at the same positions.
SameShape(a, b) ==
    /\ Len(a) = Len(b)
    /\ \A i \in 1..Len(a) : a[i] = b[i] \/ {a[i], b[i]} \subseteq {"/", "_", "-"}

C19_TruncateToFiftyChars ==
    (response.op = "truncate_string" /\ response.max_chars = 50) =>
        IF Len(response.s) <= 50 THEN response.out = response.s
        ELSE /\ Len(response.out) = 53
             /\ \A i \in 1..50 : response.out[i] = response.s[i]
             /\ SubSeq(response.out, 51, 53) = <<".", ".", ".">>

\* A text of 60 characters, some of them two bytes wide, was truncated to 50
\* characters and the marker.
C19_Witness ==
    /\ response.op = "truncate_string" /\ response.max_chars = 50
    /\ Len(response.s) = 60
    /\ \E i \in 1..50 : response.s[i] = "EACUTE"
    /\ Len(response.out) = 53

-----------------------------------------------------------------------------
-----------------------------------------------------------------------------
\* C20 as stated: the page a list call returned is the page every list call
\* with the same arguments returns on the same table and the same transcript
\* store: the same records in the same order.
C20_ListDeterministic_AsStated ==
    IsListResponse =>
        \A again \in ListResults(MergedSessions(active_sessions, response.cwd),
                                  response.limit, response.offset) :
            again.outcome = "returned" => again.sessions = response.sessions

-----------------------------------------------------------------------------
\* C21: the Active Session Table changes only by the register of a command
\* whose agent call has returned Ok, and the entry registered has the
\* session id, modes and models of the agent's response and the cwd the
\* command was called with; a command whose agent call fails returns Err
\* and the table is as it was.
C21_RegisterOnlyAfterAgentOk ==
    [][/\ active_sessions' # active_sessions =>
            \E t \in Threads :
                /\ threads[t].pc = "agent_ok"
                /\ threads'[t].pc = "registered"
                /\ active_sessions' =
                        {e \in active_sessions : e.key # threads[t].response.session_id}
                        \cup {[key |-> threads[t].response.session_id,
                               value |-> [id |-> threads[t].response.session_id,
                                          cwd |-> threads[t].cwd,
                                          created_at |-> clock, last_activity |-> clock,
                                          modes |-> threads[t].response.modes,
                                          models |-> threads[t].response.models]]}
       /\ \A t \in Threads :
            (threads[t].pc = "agent_awaiting" /\ threads'[t].pc # "agent_awaiting")
                => /\ active_sessions' = active_sessions
                   /\ threads'[t].pc = "returned" => threads'[t].result = "Err"
                   /\ threads'[t].pc \in {"returned", "agent_ok"}]_vars

\* A fork_session has returned Ok with a session id other than the one it
\* was given, and the table holds that id with the command's cwd; the other
\* command has failed.
C21_Witness ==
    \E t, u \in Threads :
        /\ threads[t].pc = "returned" /\ threads[t].result = "Ok"
        /\ threads[t].command = "fork_session"
        /\ Some(threads[t].response.session_id) # threads[t].session_id
        /\ IsSome(MapGet(active_sessions, threads[t].response.session_id))
        /\ Unwrap(MapGet(active_sessions, threads[t].response.session_id)).cwd = threads[t].cwd
        /\ threads[u].pc = "returned" /\ threads[u].result = "Err"
        /\ Cardinality(active_sessions) = 1

-----------------------------------------------------------------------------
\* C22 as stated: a lookup of an id that is registered and has a transcript
\* on disk returns the record list() holds for that id: active flag and
\* timestamp from the table, summary, message_count and previews from the
\* transcript.
C22_LookupEqualsListed_AsStated ==
    (/\ IsLookupResponse
     /\ response.session_id \in ActiveIds
     /\ OnDisk(response.session_id)) =>
        /\ IsSome(response.result)
        /\ Some(Unwrap(response.result))
                = MapGet(MergedSessions(active_sessions, None), response.session_id)

-----------------------------------------------------------------------------
(* Claims about the summary pass (specification SpecSummary).              *)

\* The lines read so far.
LinesRead == SubSeq(parser.file.lines, 1, parser.pos)
Largest(S) == CHOOSE x \in S : \A y \in S : y <= x
Smallest(S) == CHOOSE x \in S : \A y \in S : x <= y

\* The lines up to i that stage a text under leafUuid u, and the text staged
\* under u when line i is read.
Stagers(lines, i, u) ==
    {j \in 1..i : /\ lines[j].kind = "json"
                  /\ lines[j].type = Some("summary")
                  /\ IsSome(lines[j].summary)
                  /\ lines[j].leafUuid = Some(u)}
StagedText(lines, i, u) == Unwrap(lines[Largest(Stagers(lines, i, u))].summary)

\* Line i has a session id and a parent pointer that matches a leafUuid
\* staged when it is read.
Matches(lines, i) ==
    /\ lines[i].kind = "json"
    /\ IsSome(lines[i].sessionId)
    /\ IsSome(lines[i].parentUuid)
    /\ Stagers(lines, i, Unwrap(lines[i].parentUuid)) # {}
MatchedText(lines, i) == StagedText(lines, i, Unwrap(lines[i].parentUuid))
MatchPositions(lines) == {i \in 1..Len(lines) : Matches(lines, i)}

\* The summary events that carry a session id.
OwnSummaryPositions(lines) ==
    {i \in 1..Len(lines) : /\ lines[i].kind = "json"
                           /\ IsSome(lines[i].sessionId)
                           /\ lines[i].type = Some("summary")
                           /\ IsSome(lines[i].summary)}

\* C23 as stated: once a line's parent pointer has matched a staged
\* leafUuid, the running summary is the text staged for the first such line,
\* whatever lines follow; without a match it is "New Session".
C23_FirstMatchWins_AsStated ==
    parser.file.readable =>
        parser.st.summary =
            IF MatchPositions(LinesRead) = {} THEN NewSession
            ELSE MatchedText(LinesRead, Smallest(MatchPositions(LinesRead)))

\* C23, amended: after any number of lines, the running summary is the text
\* of the last summary event read that carries a session id, when there is
\* one and its text is not "New Session"; otherwise it is the text staged for
\* the first line (after that event, if any) whose parent pointer matches a
\* leafUuid staged no later than the line itself, texts equal to
\* "New Session" passed over; otherwise it is "New Session".  Later matches
\* change nothing, and a leafUuid staged after a line never attaches to it.
C23_SummaryAttachment ==
    parser.file.readable =>
        LET lines == LinesRead
            own == OwnSummaryPositions(lines)
            d == IF own = {} THEN 0 ELSE Largest(own)
            base == IF d = 0 THEN NewSession ELSE Unwrap(lines[d].summary)
            later == {i \in MatchPositions(lines) :
                        i > d /\ MatchedText(lines, i) # NewSession}
        IN  parser.st.summary =
                IF base # NewSession THEN base
                ELSE IF later = {} THEN NewSession
                ELSE MatchedText(lines, Smallest(later))

\* C23 witness: the pass is over a transcript in which two lines matched two
\* different staged texts; the summary is the text of the first match.
C23_Witness ==
    /\ parser.done /\ parser.file.readable
    /\ OwnSummaryPositions(parser.file.lines) = {}
    /\ \E i, k \in MatchPositions(parser.file.lines) :
        /\ i < k
        /\ MatchedText(parser.file.lines, i) # MatchedText(parser.file.lines, k)
        /\ MatchedText(parser.file.lines, i) # NewSession
        /\ parser.st.summary = MatchedText(parser.file.lines, i)
        /\ i = Smallest(MatchPositions(parser.file.lines))

\* The lines whose message of the given role the pass accepts for the
\* preview: a session id, a message of that role, a text that is not a system
\* message and, for the assistant, no API error flag.
AcceptedPositions(lines, role) ==
    {i \in 1..Len(lines) :
        /\ lines[i].kind = "json"
        /\ IsSome(lines[i].sessionId)
        /\ IsSome(lines[i].message)
        /\ Unwrap(lines[i].message).role = Some(role)
        /\ IsSome(extract_text_content(Unwrap(lines[i].message).content))
        /\ ~is_system_message(Unwrap(extract_text_content(Unwrap(lines[i].message).content)))
        /\ (role = "assistant" => lines[i].isApiErrorMessage # Some(TRUE))}
TextAt(lines, i) == Unwrap(extract_text_content(Unwrap(lines[i].message).content))
\* The text of the latest accepted message of a role, None without one.
LatestAccepted(lines, role) ==
    IF AcceptedPositions(lines, role) = {} THEN None
    ELSE Some(TextAt(lines, Largest(AcceptedPositions(lines, role))))

\* The fallback summary of a transcript.
FallbackSummary(lines) ==
    IF IsSome(LatestAccepted(lines, "user"))
    THEN truncate_string(Unwrap(LatestAccepted(lines, "user")), PreviewChars)
    ELSE IF IsSome(LatestAccepted(lines, "assistant"))
    THEN truncate_string(Unwrap(LatestAccepted(lines, "assistant")), PreviewChars)
    ELSE NewSession

Summarized == parser.done /\ parser.file.readable /\ IsSome(parser.result)

ApiErrorPositions(lines) ==
    {i \in 1..Len(lines) :
        /\ lines[i].kind = "json"
        /\ IsSome(lines[i].sessionId)
        /\ IsSome(lines[i].message)
        /\ Unwrap(lines[i].message).role = Some("assistant")
        /\ lines[i].isApiErrorMessage = Some(TRUE)}

\* C25: after any number of lines the assistant preview is the text of the
\* latest assistant line read that is neither a system message nor flagged
\* isApiErrorMessage = true (none without such a line), whether error lines
\* came before or after it; the record returned carries that preview, and
\* its fallback summary is never the text of an error line.
C25_ApiErrorNeverPreview ==
    parser.file.readable =>
        /\ parser.st.last_assistant_message = LatestAccepted(LinesRead, "assistant")
        /\ Summarized =>
            /\ Unwrap(parser.result).last_assistant_message
                    = LatestAccepted(parser.file.lines, "assistant")
            /\ \A i \in ApiErrorPositions(parser.file.lines) :
                /\ Unwrap(parser.result).last_assistant_message
                        # Some(TextAt(parser.file.lines, i))
                /\ Unwrap(parser.result).summary
                        # truncate_string(TextAt(parser.file.lines, i), PreviewChars)

\* C25 witness: an API error line is the last assistant line of the
\* transcript and an accepted assistant line precedes it; the preview and
\* the fallback summary are the earlier text.
C25_Witness ==
    /\ Summarized
    /\ AcceptedPositions(parser.file.lines, "assistant") # {}
    /\ ApiErrorPositions(parser.file.lines) # {}
    /\ Largest(AcceptedPositions(parser.file.lines, "assistant"))
            < Largest(ApiErrorPositions(parser.file.lines))
    /\ Unwrap(parser.result).last_assistant_message = Some(TextOk)
    /\ Unwrap(parser.result).summary = TextOk

\* The content shapes that carry the text t.
ShapesOf(t) ==
    {ContentString(t), ContentArray(<<ItemText(t)>>), ContentArray(<<ItemString(t)>>)}
CarriesText(content) ==
    \/ content.shape = "string"
    \/ /\ content.shape = "array" /\ content.items # << >>
       /\ Head(content.items).kind \in {"object_text", "string"}
CarriedText(content) ==
    IF content.shape = "string" THEN content.text ELSE Head(content.items).text

\* C26: after any number of lines each preview is the text of the latest
\* accepted line of its role (none without one), whatever lines of the other
\* role or earlier lines of the same role were read; and the line just read
\* leaves the same parser state when its content is given in any of the
\* three shapes that carry its text.
C26_PreviewsLastWriteWins ==
    parser.file.readable =>
        /\ parser.st.last_user_message = LatestAccepted(LinesRead, "user")
        /\ parser.st.last_assistant_message = LatestAccepted(LinesRead, "assistant")
        /\ parser.pos > 0 =>
            LET line == parser.file.lines[parser.pos]
                before == ParseLines(ParseInit, SubSeq(parser.file.lines, 1, parser.pos - 1))
            IN  (/\ line.kind = "json"
                 /\ IsSome(line.message)
                 /\ CarriesText(Unwrap(line.message).content)) =>
                    \A content \in ShapesOf(CarriedText(Unwrap(line.message).content)) :
                        ParseLine(before,
                                  [line EXCEPT !.message =
                                      Some([Unwrap(line.message) EXCEPT !.content = content])])
                            = parser.st

\* C26 witness: two accepted user lines with different texts in different
\* shapes and an accepted assistant line before the second of them; each
\* preview is the latest text of its role.
C26_Witness ==
    /\ Summarized
    /\ \E i, k \in AcceptedPositions(parser.file.lines, "user") :
        /\ i < k
        /\ k = Largest(AcceptedPositions(parser.file.lines, "user"))
        /\ TextAt(parser.file.lines, i) # TextAt(parser.file.lines, k)
        /\ Unwrap(parser.file.lines[i].message).content.shape = "string"
        /\ Unwrap(parser.file.lines[k].message).content.shape = "array"
        /\ Unwrap(parser.result).last_user_message = Some(TextAt(parser.file.lines, k))
        /\ \E j \in AcceptedPositions(parser.file.lines, "assistant") :
            /\ j < k
            /\ Unwrap(parser.file.lines[j].message).content.shape = "array"
            /\ Unwrap(parser.result).last_assistant_message
                    = Some(TextAt(parser.file.lines, j))

\* The lines that carry a timestamp string, and those of them that also
\* carry a session id.
TimestampPositions(lines) ==
    {i \in 1..Len(lines) : lines[i].kind = "json" /\ IsSome(lines[i].timestamp)}
StampedPositions(lines) ==
    {i \in TimestampPositions(lines) : IsSome(lines[i].sessionId)}
MtimeFallback(file) ==
    IF IsSome(file.mtime) THEN to_rfc3339(Unwrap(file.mtime)) ELSE << >>

\* C27 as stated: the last_activity returned is the greatest timestamp among
\* the lines that carry one, and the file's modification time exactly when
\* no line carries one.
C27_MostRecentTimestamp_AsStated ==
    Summarized =>
        LET stamps == {Unwrap(parser.file.lines[i].timestamp) :
                            i \in TimestampPositions(parser.file.lines)}
        IN  IF stamps = {}
            THEN Unwrap(parser.result).last_activity = MtimeFallback(parser.file)
            ELSE /\ Unwrap(parser.result).last_activity \in stamps
                 /\ \A ts \in stamps : StrLeq(ts, Unwrap(parser.result).last_activity)

\* C27, amended: the last_activity returned is the timestamp string of the
\* last line, in file order, that carries both a session id and a timestamp,
\* whether or not an earlier line carries a later instant; when there is no
\* such line (or that string is empty) it is the file's modification time in
\* RFC 3339, and it is empty when the modification time cannot be read.
C27_LastTimestampInFileOrder ==
    Summarized =>
        LET stamped == StampedPositions(parser.file.lines)
            last == IF stamped = {} THEN << >>
                    ELSE Unwrap(parser.file.lines[Largest(stamped)].timestamp)
        IN  Unwrap(parser.result).last_activity =
                IF last = << >> THEN MtimeFallback(parser.file) ELSE last

\* C27 witness: the last line with a timestamp carries an earlier instant
\* than a line before it, and last_activity is the earlier instant.
C27_Witness ==
    /\ Summarized
    /\ \E i, k \in StampedPositions(parser.file.lines) :
        /\ i < k
        /\ k = Largest(StampedPositions(parser.file.lines))
        /\ StrLess(Unwrap(parser.file.lines[k].timestamp),
                   Unwrap(parser.file.lines[i].timestamp))
        /\ Unwrap(parser.result).last_activity = Unwrap(parser.file.lines[k].timestamp)

-----------------------------------------------------------------------------
\* C28 as stated: for a transcript with at most 200 accepted lines, the
\* number of messages load_session_chat_items returns is the message_count
\* parse_session_file reports for the same file, and 0 when it reports none.
C28_LoadCountIsMessageCount_AsStated ==
    (/\ parser.done
     /\ Len(HistoryPositions(parser.file.lines)) <= MAX_HISTORY_ITEMS) =>
        Len(parser.result) =
            IF IsSome(parse_session_file(parser.file))
            THEN Unwrap(parse_session_file(parser.file)).message_count
            ELSE 0

-----------------------------------------------------------------------------
\* The entries of the table a list with the response's filter is seeded from.
SeededEntries ==
    {e \in active_sessions : ~IsSome(response.cwd) \/ e.value.cwd = Unwrap(response.cwd)}
MemoryFields(info) == <<info.id, info.active, info.last_activity, info.cwd, info.project>>

\* C29: in a list, the record of every id seeded from the table has the id,
\* active = TRUE, the last_activity, the cwd and the project key of its table
\* entry, whether or not a transcript of that id was found and whatever that
\* transcript holds; only summary, message_count and the two previews can
\* differ from the seeded record.
C29_EnrichmentKeepsMemoryFields ==
    IsListResponse =>
        \A e \in SeededEntries :
            /\ Positions(response.sorted, e.key) # {}
            /\ \A i \in Positions(response.sorted, e.key) :
                /\ response.sorted[i].active
                /\ MemoryFields(response.sorted[i]) = MemoryFields(ActiveInfo(e.key, e.value))

\* C29 witness: a session registered with cwd /b_c was enriched from a
\* transcript that records cwd /a and its own timestamps; the record has the
\* transcript's summary and message count and the table's cwd, project key
\* and last_activity.
C29_Witness ==
    /\ IsListResponse
    /\ \E e \in SeededEntries :
        /\ e.value.cwd = CwdBC
        /\ ScanHits(e.key) # {}
        /\ LastScanHit(e.key).cwd = CwdA
        /\ LastScanHit(e.key).last_activity # to_rfc3339(e.value.last_activity)
        /\ \E i \in Positions(response.sorted, e.key) :
            /\ response.sorted[i].summary = TextSummary
            /\ response.sorted[i].message_count = 2
            /\ response.sorted[i].cwd = CwdBC
            /\ response.sorted[i].project = Some(cwd_to_path_key(CwdBC))
            /\ response.sorted[i].last_activity = to_rfc3339(e.value.last_activity)

-----------------------------------------------------------------------------
\* The entries of a table other than the one of id.
OtherEntries(map, id) == {e \in map : e.key # id}

\* C30: after update_activity(id) the table has the entries of every other id
\* exactly as before, and the entry of id, when there was one, differs from
\* the one before in last_activity at most; after update_modes(id, modes) the
\* same holds with modes in place of last_activity.  Neither call adds or
\* removes an entry.
C30_UpdatesChangeOneField ==
    response.op \in {"update_activity", "update_modes"} =>
        /\ OtherEntries(active_sessions, response.id)
                = OtherEntries(response.before, response.id)
        /\ contains_key(active_sessions, response.id)
                <=> contains_key(response.before, response.id)
        /\ \A e \in active_sessions : e.key = response.id =>
            LET b == Unwrap(MapGet(response.before, response.id))
            IN  IF response.op = "update_activity"
                THEN e.value = [b EXCEPT !.last_activity = e.value.last_activity]
                ELSE /\ e.value = [b EXCEPT !.modes = e.value.modes]
                     /\ IsSome(e.value.modes)

\* C30 witness: update_activity moved the last_activity of a session that
\* has modes and models, while another session is registered.
C30_Witness ==
    /\ response.op = "update_activity"
    /\ OtherEntries(active_sessions, response.id) # {}
    /\ \E e \in active_sessions :
        /\ e.key = response.id
        /\ e.value.last_activity # Unwrap(MapGet(response.before, response.id)).last_activity
        /\ e.value.created_at # e.value.last_activity
        /\ IsSome(e.value.modes) /\ IsSome(e.value.models)

-----------------------------------------------------------------------------
\* The instant of a stamped record, in nanoseconds.
InstantOf(record) == record.secs * 1000000000 + record.nanos

\* C31 as stated: of two sorted records, the one stamped at the later
\* instant stands before the other, whichever source stamped each.
C31_LaterInstantFirst_AsStated ==
    response.op = "sort_by" =>
        \A i, j \in 1..Len(response.sessions) :
            InstantOf(response.sessions[i]) > InstantOf(response.sessions[j]) => i < j

-----------------------------------------------------------------------------
\* The lines of a transcript that parse as JSON, in file order.
JsonLines(lines) == SelectSeq(lines, LAMBDA line : line.kind = "json")

\* The messages loaded from lines when every generated id is "g1".
RECURSIVE LoadedFrom(_, _)
LoadedFrom(chat_items, lines) ==
    IF lines = << >> THEN chat_items
    ELSE LoadedFrom(LoadLine(chat_items, Head(lines), clock, "g1"), Tail(lines))

\* A loaded message with a generated id named as such.
Shown(items) ==
    [i \in 1..Len(items) |->
        [items[i] EXCEPT !.id = IF @ \in GeneratedIds THEN "generated" ELSE @]]

\* C32: the result of parse_session_file on a readable transcript is its
\* result on the transcript with every blank and every malformed line
\* removed, and the messages load_session_chat_items returns are those it
\* returns for that transcript (generated ids aside); on a file that cannot
\* be opened the first returns None and the second an empty vector.
C32_ParseErrorsAbsorbed ==
    parser.done =>
        /\ IsParseRun =>
            parser.result =
                IF ~parser.file.readable THEN None
                ELSE ParseFinish(ParseLines(ParseInit, JsonLines(parser.file.lines)),
                                 parser.file)
        /\ IsLoadRun =>
            Shown(parser.result) =
                IF ~parser.file.readable THEN << >>
                ELSE Shown(KeepRecent(LoadedFrom(<< >>, JsonLines(parser.file.lines))))

\* C32 witness: a transcript with a blank line, a malformed line and then a
\* message was summarized to a record that counts the message.
C32_Witness ==
    /\ parser.done /\ IsParseRun /\ parser.file.readable
    /\ Len(parser.file.lines) = 3
    /\ parser.file.lines[1].kind = "malformed"
    /\ parser.file.lines[2].kind = "blank"
    /\ parser.file.lines[3].kind = "json"
    /\ IsSome(parser.result)
    /\ Unwrap(parser.result).message_count = 1
    /\ Unwrap(parser.result).last_user_message = Some(TextHi)

-----------------------------------------------------------------------------
\* C33 as stated: in every list, filtered or not, a record has active = TRUE
\* exactly when its id is registered in the table.
C33_ActiveIffRegistered_AsStated ==
    IsListResponse =>
        \A i \in 1..Len(response.sorted) :
            response.sorted[i].active <=> response.sorted[i].id \in ActiveIds

-----------------------------------------------------------------------------
\* C34 as stated: get_session_info(id) returns a record exactly when id has a
\* record in the unfiltered list of the whole catalog.
C34_LookupIffListed_AsStated ==
    IsLookupResponse =>
        (IsSome(response.result)
            <=> contains_key(MergedSessions(active_sessions, None), response.session_id))

-----------------------------------------------------------------------------
\* C35 as stated: every record of a list filtered by cwd c has cwd = c.
C35_FilteredCwd_AsStated ==
    (IsListResponse /\ IsSome(response.cwd)) =>
        \A i \in 1..Len(response.sorted) :
            response.sorted[i].cwd = Unwrap(response.cwd)

\* The transcripts named <id>.jsonl in the project directories named key.
FilesIn(key, id) ==
    UNION {{d.files[j] : j \in {k \in 1..Len(d.files) :
                            d.files[k].stem = id /\ d.files[k].ext = "jsonl"}} :
                d \in {disk.entries[i] : i \in {k \in 1..Len(disk.entries) :
                            disk.entries[k].name = key /\ disk.entries[k].is_dir}}}

\* C35, amended: in a list filtered by cwd c, every active record has
\* cwd = c; every historical record was read from the directory encode(c):
\* its project key is encode(c) and its cwd is the one its transcript
\* records or, when the transcript records none, decode(encode(c)), either
\* of which can differ from c.
C35_FilteredDirectory ==
    (IsListResponse /\ IsSome(response.cwd)) =>
        LET c == Unwrap(response.cwd)
            key == cwd_to_path_key(c)
        IN  \A i \in 1..Len(response.sorted) :
                LET rec == response.sorted[i]
                IN  IF rec.active THEN rec.cwd = c
                    ELSE /\ rec.project = Some(key)
                         /\ \E file \in FilesIn(key, rec.id) :
                                /\ IsSome(parse_session_file(file))
                                /\ rec.cwd =
                                    IF Unwrap(parse_session_file(file)).cwd = << >>
                                    THEN path_key_to_cwd(key)
                                    ELSE Unwrap(parse_session_file(file)).cwd

\* C35 witness: a list filtered by /b_c holds an active record with that cwd
\* and a historical record whose cwd is /b/c, decoded from the directory name.
C35_Witness ==
    /\ IsListResponse /\ response.cwd = Some(CwdBC)
    /\ \E i, j \in 1..Len(response.sorted) :
        /\ response.sorted[i].active
        /\ response.sorted[i].cwd = CwdBC
        /\ ~response.sorted[j].active
        /\ response.sorted[j].cwd = <<"/","b","/","c">>
        /\ response.sorted[j].project = Some(<<"-","b","-","c">>)

-----------------------------------------------------------------------------
\* The ids of the records of a sequence.
IdsOf(sessions) == {sessions[i].id : i \in 1..Len(sessions)}

\* C36: in the result of every list call, whatever register and unregister
\* calls ran while it was made and however many project directories hold a
\* transcript of one id, no two records of the sorted set, hence of the
\* page, have the same id, and total is the number of ids.
C36_DistinctIds ==
    \A t \in Threads :
        (threads[t].pc = "list_done" /\ threads[t].result.outcome = "returned") =>
            LET result == threads[t].result
            IN  /\ \A i, j \in 1..Len(result.sorted) :
                        result.sorted[i].id = result.sorted[j].id => i = j
                /\ \A i, j \in 1..Len(result.sessions) :
                        result.sessions[i].id = result.sessions[j].id => i = j
                /\ result.total = Cardinality(IdsOf(result.sorted))

\* C36 witness: a list whose seeding saw no session returned while s1, whose
\* transcript lies in two project directories, is registered; s1 is listed
\* once, as a historical record.
C36_Witness ==
    \E t \in Threads :
        /\ threads[t].pc = "list_done"
        /\ threads[t].cwd = None
        /\ threads[t].result.outcome = "returned"
        /\ contains_key(active_sessions, IdS1)
        /\ Cardinality(Holders(IdS1)) = 2
        /\ Cardinality(Positions(threads[t].result.sorted, IdS1)) = 1
        /\ \A i \in Positions(threads[t].result.sorted, IdS1) :
                ~threads[t].result.sorted[i].active
        /\ threads[t].result.total = 3

-----------------------------------------------------------------------------
\* C37: the clock never runs backwards, and in every step the last_activity
\* stored for an id that is registered before and after the step does not
\* decrease.
C37_ActivityNeverDecreases_AsStated ==
    [][/\ clock' >= clock
       /\ \A id \in TouchedIds :
            (contains_key(active_sessions, id) /\ contains_key(active_sessions', id)) =>
                Unwrap(MapGet(active_sessions', id)).last_activity >=
                    Unwrap(MapGet(active_sessions, id)).last_activity]_vars

-----------------------------------------------------------------------------
\* C38: a lookup of an id whose transcript on disk has a counted message
\* never ends with None, whatever register and unregister calls ran while
\* it was made: it ends with an active record of the id or with the record
\* read from the transcript.
C38_LookupNeverAbsent ==
    \A t \in Threads :
        (/\ threads[t].pc = "lookup_done"
         /\ IsSome(SessionInfoFromDisk(threads[t].session_id))) =>
            /\ IsSome(threads[t].result)
            /\ Unwrap(threads[t].result).id = threads[t].session_id
            /\ \/ Unwrap(threads[t].result).active
               \/ threads[t].result = SessionInfoFromDisk(threads[t].session_id)

\* C38 witness: a lookup that ended with the historical record of s1 while
\* the other caller holds the write lock having just registered s1, or one
\* that ended with the active record of s1 after s1 was unregistered.
C38_Witness ==
    \E t, u \in Threads :
        /\ threads[t].pc = "lookup_done"
        /\ threads[t].session_id = IdS1
        /\ IsSome(threads[t].result)
        /\ \/ /\ ~Unwrap(threads[t].result).active
              /\ threads[u].pc = "register_inserted"
              /\ contains_key(active_sessions, IdS1)
           \/ /\ Unwrap(threads[t].result).active
              /\ threads[u].pc = "unregistered"
              /\ ~contains_key(active_sessions, IdS1)

-----------------------------------------------------------------------------
\* What a list shows of its active records: id, last_activity and cwd.
ActiveShown(sessions) ==
    {<<sessions[i].id, sessions[i].last_activity, sessions[i].cwd>> :
        i \in {j \in 1..Len(sessions) : sessions[j].active}}

\* C39: while a list holds the read lock of its seeding the table holds what
\* it found, and the active records of the list it returns are exactly the
\* sessions of that table the filter admits, with the last_activity and cwd
\* they had in it, whatever register, unregister and touch calls ran
\* afterwards.
C39_ActiveRecordsAreSnapshot ==
    \A t \in Threads :
        /\ threads[t].pc = "list_seeded" =>
                threads[t].seeded = TableHeld(active_sessions, threads[t].cwd)
        /\ (threads[t].pc = "list_done" /\ threads[t].result.outcome = "returned") =>
                ActiveShown(threads[t].result.sorted) = threads[t].seeded

\* C39 witness: a returned list whose seeding found s1 registered at time 0,
\* and shows it so, after s1 was touched at time 1; or one whose seeding
\* found no session and shows s1, registered since, as a historical record.
C39_Witness ==
    \E t \in Threads :
        /\ threads[t].pc = "list_done"
        /\ threads[t].result.outcome = "returned"
        /\ contains_key(active_sessions, IdS1)
        /\ \/ /\ ActiveShown(threads[t].result.sorted) # {}
              /\ \E held \in threads[t].seeded :
                    held[1] = IdS1 /\ held[2] = to_rfc3339(0)
              /\ Unwrap(MapGet(active_sessions, IdS1)).last_activity = 1
           \/ /\ threads[t].seeded = {}
              /\ \E i \in Positions(threads[t].result.sorted, IdS1) :
                    ~threads[t].result.sorted[i].active

-----------------------------------------------------------------------------
\* C40: whatever offset and limit a list is called with, the call returns,
\* and has_more is true only if the sorted set has a record at a position
\* beyond offset + limit, the sum taken in the integers.
C40_HasMoreWithoutWrap_AsStated ==
    response.op = "list_sessions" =>
        /\ response.outcome = "returned"
        /\ response.has_more => response.offset + response.limit < Len(response.sorted)

=========================================================================
